---- MODULE Spec2Model ----
(***************************************************************************)
(* A model of kodigcs (github.com/bobg/kodigcs).                           *)
(*                                                                         *)
(* Part 1 (Spec): the two caches of the server (the Object Name Set        *)
(* objNames and the Metadata Table infoMap), the read-write lock mu that   *)
(* protects them, and the request handlers of src/handle.go that refresh   *)
(* and read them.  Every handler is a process whose position is pc[h];     *)
(* the bucket, the spreadsheet and the clock are the environment.          *)
(*                                                                         *)
(* Part 2 (SpecCert): the certificate rotation supervisor of src/main.go   *)
(* (serveHelper, serveHelper2, serveWithCert).                             *)
(*                                                                         *)
(* Part 3 (SpecRow): the callback of ensureInfoMap that turns the cells    *)
(* of a spreadsheet row into a record (src/handle.go:344-483).             *)
(*                                                                         *)
(* Part 4: the paths of the server, over names that are strings:          *)
(* parsePath and handleDir (SpecPath), the routing of handle               *)
(* (SpecHandle), rootNamePrefix (SpecPrefix).                              *)
(*                                                                         *)
(* Part 5 (SpecCtx): one call of ensureObjNames or ensureInfoMap under a   *)
(* context that can be cancelled while the backing call is in progress.    *)
(*                                                                         *)
(* Part 6 (SpecCell): cellName of src/sheet.go.                            *)
(*                                                                         *)
(* Part 7 (SpecSort): sortTitle and intToWords of src/sort.go.             *)
(*                                                                         *)
(* Part 8 (SpecUpd): the row callback of updateSpreadsheet                 *)
(* (src/sheet.go).                                                         *)
(*                                                                         *)
(* Part 9 (SpecAuth): the Basic-auth gate of handle and handleThumb.       *)
(*                                                                         *)
(* Part 10 (SpecThumb): the image references of the Metadata Table and     *)
(* handleThumb.                                                            *)
(*                                                                         *)
(* Part 11 (SpecObj): objReader of src/objreader.go.                       *)
(*                                                                         *)
(* Part 12 (SpecLog): the progress-logging goroutine of server.handle.     *)
(***************************************************************************)
EXTENDS Integers, Sequences, FiniteSets, Bags, TLC

(***************************************************************************)
(* Bounds of the model and program constants.                              *)
(***************************************************************************)

\* Object names are 1..NumNames; the root name of object n is n as well.
NumNames == 2

\* The spreadsheet has at most MaxRows rows, the heading row included.
MaxRows == 2

\* At most MaxEnum enumerations of the bucket are started after the latest
\* successful one (or after the start, before the first success).
MaxEnum == 2

\* const staleTime = 5 * time.Minute (the clock of the model is in minutes)
staleTime == 5

\* The zero time.Time: stale at every instant of the clock.
ZeroTime == 0 - (staleTime + 1)

\* The clock is read only to stamp a refresh and by isStale, so the model
\* keeps the instants that those two tell apart: a refresh stamped 0 is
\* still fresh at staleTime and is stale at staleTime + 1.
Instants == {0, staleTime, staleTime + 1}

Handlers == {"h1", "h2"}

\* The certificate command produces at most MaxCerts certificates; they are
\* numbered 1..MaxCerts in the order of their production.
MaxCerts == 3

\* At most MaxInflight requests are in flight on one listener.
MaxInflight == 2

\* A numeric cell of the spreadsheet holds at most MaxCellLen characters.
MaxCellLen == 2

\* A refresh of part 3 reads at most MaxSheetRows data rows.
MaxSheetRows == 2

\* The process of part 4 is restarted at most MaxBoots times.
MaxBoots == 1

\* The listing of the bucket of part 5 has at most MaxPages pages of at
\* most MaxPageLen objects.
MaxPages == 2

MaxPageLen == 2

\* cellName is applied to the rows 0..MaxCellRow and the columns
\* 0..MaxCellCol.
MaxCellRow == 10

MaxCellCol == 703

\* sortTitle is applied to titles whose number is in 0..MaxSortNum or one
\* of the larger numbers SortLargeNums.
MaxSortNum == 120

\* A row of part 8 has at most MaxUpdCols cells after its name.
MaxUpdCols == 3

\* A row of part 10 has at most MaxThumbs image cells that are not empty.
MaxThumbs == 2

\* The object of part 11 has at most MaxObjSize bytes, and an objReader
\* returns at most MaxNread bytes in all.
MaxObjSize == 2

MaxNread == 3

\* Part 12 has MaxTransfers media transfers of at most MaxBytes bytes, and
\* follows each logging goroutine up to MaxLogs final log lines.
MaxTransfers == 2

MaxBytes == 1

MaxLogs == 2

\* A listener epoch is the certificate the listener serves; epoch 0 is the
\* listener without a certificate (serveWithCert(ctx, nil)).
Epochs == 0..MaxCerts

Names == 1..NumNames

\* A spreadsheet row is the root name in its first column, or 0 for a row
\* that handleSheet skips (fewer than two cells, or a first cell that is
\* not a string).
Rows == 0..NumNames

None == "none"

\* The latest step was no step of an ensure operation past its lock.
NoEv == [h |-> None, op |-> None, out |-> None, saw |-> None]

VARIABLES
  \* ---- environment ----
  now,          \* the wall clock, time.Now()
  \* ---- server (src/server.go) ----
  sheetID,      \* "" when no spreadsheet is configured
  objNames,     \* s.objNames (a nil set and an empty set are both {})
  objNamesTime, \* s.objNamesTime
  infoMap,      \* the keys (root names) of s.infoMap
  infoMapTime,  \* s.infoMapTime
  writer,       \* s.mu: the handler holding the write lock, or None
  readers,      \* s.mu: the handlers holding the read lock
  \* ---- handlers ----
  pc,           \* pc[h]: the position of handler h
  route,        \* route[h]: the function h is in (parsePath, handleDir, ...)
  iter,         \* the names the running enumeration has yet to return
  resp,         \* resp.Values of the running handleSheet
  rowIdx,       \* the loop index of the running handleSheet
  \* ---- history ----
  ev,           \* what an ensure operation did in the latest step
  snapObj,      \* objNames when the running rebuild of it began
  snapInfo,     \* infoMap when the running rebuild of it began
  goodObj,      \* the set that the latest successful enumeration produced
  goodInfo,     \* the table that the latest successful refresh produced
  okEver,       \* ensureObjNames has completed an enumeration
  okNonEmpty,   \* the latest completed enumeration returned a name
  enumSinceOK,  \* enumerations started after the latest completed one
  saw,          \* saw[h]: what h has seen of the cache since it called the
                \* ensure operation it waits in: None (the cache needed no
                \* rebuild when h called), "stale" (it needed one), or the
                \* outcome of the rebuild another caller ran meanwhile
  \* ---- certificate rotation supervisor (src/main.go) ----
  outerDone,    \* the context of serve is cancelled (interrupt, SIGTERM)
  produced,     \* the number of certificates the command has produced
  certCh,       \* the certificate offered on certCh, 0 when there is none
  chClosed,     \* certCh is closed (the command has exited)
  supPc,        \* the position of serveHelper / serveHelper2
  supErr,       \* what serveHelper returned
  cert,         \* the variable cert of serveHelper (0: the zero value)
  newCert,      \* the variable newCert of serveHelper2
  cancelled,    \* cancelled[e]: cancel() of the context of epoch e was called
  task,         \* task[e]: the position of serveWithCert for epoch e
  lns,          \* lns[e]: the state of ListenAndServe(TLS) of epoch e
  errCh,        \* errCh[e]: the content of errCh of serveHelper2 for epoch e
  inflight,     \* inflight[e]: requests in flight on the listener of epoch e
  \* ---- history ----
  everBound,    \* some listener has been bound
  lastBound,    \* the epoch of the listener bound latest
  \* ---- the row callback of ensureInfoMap (src/handle.go:344-483) ----
  rPc,          \* the position of the refresh: "start", "idle" (between
                \* rows), "cells" (in the loop over the cells), "stored"
                \* (the record is in the table), "done"
  rLeft,        \* the data rows that handleSheet has yet to pass
  rName,        \* rootName of the current row
  rRow,         \* the cells of the current row after the name
  rJ,           \* the loop index j over the cells
  rInfo,        \* the variable info of the callback
  rTable,       \* the keys of s.infoMap
  rGiven,       \* history: the names of the rows passed to the callback
  rResult,      \* what the refresh returned
  \* ---- paths: rootNamePrefix, parsePath, handleDir, handle ----
  pPc,          \* "start" before the upstream data are chosen, then "run"
  pUp,          \* the upstream data and the configuration: the records of
                \* the spreadsheet, the objects of the bucket, -subdirs
  pTable,       \* s.infoMap: root name -> info.subdir
  pBoot,        \* how many times the process has been restarted
  pOut,         \* the outcome of the latest operation
  pFirst,       \* history: the first outcome of parsePath
  pPrefixes,    \* history: the calls of rootNamePrefix, each with its
                \* root name, the restart count and the prefix returned
  \* ---- an ensure call under a cancellable context ----
  xPc,          \* "start", "objs" (in the loop of ensureObjNames), "sheet"
                \* (in Values.Get(...).Do() of handleSheet), "returned"
  xCtx,         \* ctx is cancelled
  xPages,       \* the pages of the listing that the iterator has yet to
                \* fetch, each the number of its objects
  xBuf,         \* the objects of the fetched page not yet returned by Next
  xGot,         \* how many names the call has added to s.objNames
  xRes,         \* what the ensure call returned
  xDuring,      \* history: ctx was cancelled while a request to the
                \* backing service was still to be made or in flight
  \* ---- cellName ----
  cPc,          \* "start", then "done" when cellName has returned
  cRow,         \* the arguments of the call
  cCol,
  cName,        \* the result of the call
  \* ---- sortTitle ----
  sPc,          \* "start", then "done" when sortTitle has returned
  sTitle,       \* the argument of the call
  sOut,         \* the result of the call
  \* ---- the row callback of updateSpreadsheet ----
  uPc,          \* "start", "file" (before parseIMDbHTML), "page" (before
                \* parseIMDbPage), "write" (in the loop of writes),
                \* "returned"
  uHead,        \* headings
  uRow,         \* row
  uInfo,        \* the variable info once it is not nil
  uJ,           \* the loop index j of the loop of writes
  uLooked,      \* history: the lookup made for the row: "none", "file"
                \* (parseIMDbHTML) or "page" (parseIMDbPage)
  uWrites,      \* history: the columns of the cells written for the row
  uRes,         \* what the callback returned
  \* ---- the Basic-auth gate ----
  aPc,          \* "start", "run" (serving), "admitted" (a request is past
                \* the gate), "answered"
  aCfg,         \* s.username and s.password
  aReq,         \* the request being handled
  aCode,        \* the status code of the answer, 0 before it
  aAccess,      \* history: the handler of the request has read or
                \* refreshed a cache or accessed the bucket
  \* ---- handleThumb ----
  tPc,          \* "start" before the caches are loaded, then "run"
  tTable,       \* s.infoMap: root name -> info.Thumbs
  tObjs,        \* s.objNames
  tOut,         \* the answer to the latest request
  \* ---- objReader ----
  oPc,          \* "start" before the objReader is made, then "open"
  oR,           \* r.r: {} for nil, or {the position of the open
                \* storage.Reader in the object}
  oPos,         \* r.pos
  oSize,        \* r.size
  oNread,       \* r.nread
  oLast,        \* the latest call: its name, the count or position it
                \* returned, whether it returned an error, and the
                \* position at which it opened a reader
  \* ---- the progress-logging goroutine of handle ----
  lVerbose,     \* s.verbose
  lPc,          \* lPc[h]: handle of transfer h: "start", "serving" (in
                \* http.ServeContent), "returned"
  lCtx,         \* lCtx[h]: the context of the goroutine is cancelled
  lTask,        \* lTask[h]: the goroutine: "none", "select", "exited"
  lStarted,     \* history: how many goroutines transfer h has started
  lTimer,       \* lTimer[h]: "none", "armed", "fired" (t.C holds the
                \* time), "drained"
  lNRead,       \* r.NRead() of transfer h
  lFinal,       \* history: the "served ... bytes" lines logged for h
  lProgress     \* history: the progress lines logged for h

cacheVars == <<now, sheetID, objNames, objNamesTime, infoMap, infoMapTime,
               writer, readers, pc, route, iter, resp, rowIdx, ev, snapObj,
               snapInfo, goodObj, goodInfo, okEver, okNonEmpty,
               enumSinceOK, saw>>

certVars == <<outerDone, produced, certCh, chClosed, supPc, supErr, cert,
              newCert, cancelled, task, lns, errCh, inflight, everBound,
              lastBound>>

rowVars == <<rPc, rLeft, rName, rRow, rJ, rInfo, rTable, rGiven, rResult>>

pathVars == <<pPc, pUp, pTable, pBoot, pOut, pFirst, pPrefixes>>

ctxVars == <<xPc, xCtx, xPages, xBuf, xGot, xRes, xDuring>>

cellVars == <<cPc, cRow, cCol, cName>>

\* The variables of the parts after part 3.
sortVars == <<sPc, sTitle, sOut>>

updVars == <<uPc, uHead, uRow, uInfo, uJ, uLooked, uWrites, uRes>>

authVars == <<aPc, aCfg, aReq, aCode, aAccess>>

thumbVars == <<tPc, tTable, tObjs, tOut>>

readerVars == <<oPc, oR, oPos, oSize, oNread, oLast>>

logVars == <<lVerbose, lPc, lCtx, lTask, lStarted, lTimer, lNRead, lFinal,
             lProgress>>

\* The variables of the parts after part 6.
moreVars == <<sortVars, updVars, authVars, thumbVars, readerVars, logVars>>

laterVars == <<pathVars, ctxVars, cellVars, moreVars>>

vars == <<cacheVars, certVars, rowVars, laterVars>>

(***************************************************************************)
(* Helpers.                                                                *)
(***************************************************************************)

\* isStale that never finds a timestamp stale.
isStaleNever(t) == FALSE

\* isStale without the window: Add(-staleTime) left out.
isStaleNoWindow(t) == t < now

\* func isStale(t time.Time) bool { return t.Before(time.Now().Add(-staleTime)) }
isStale(t) == t < now - staleTime

Min(S) == CHOOSE x \in S : \A y \in S : x <= y

\* bucket.Objects lists the objects in lexicographic order of their names.
RECURSIVE Listing(_)
Listing(S) == IF S = {} THEN <<>> ELSE <<Min(S)>> \o Listing(S \ {Min(S)})

RECURSIVE SeqsUpTo(_, _)
SeqsUpTo(S, n) ==
  IF n = 0 THEN {<<>>}
  ELSE LET shorter == SeqsUpTo(S, n - 1)
       IN  shorter \cup {Append(q, x) : q \in shorter, x \in S}

\* The spreadsheets of the model: no row at all, or a heading row (written
\* 0: its content does not matter here) followed by data rows.
Sheets == {<<>>} \cup {<<0>> \o q : q \in SeqsUpTo(Rows, MaxRows - 1)}

\* ensureObjNames without the test under the lock: every call rebuilds.
NeedsObjAlways == TRUE

\* ensureObjNames rebuilds (the test of handle.go:306 fails).
NeedsObj == ~(objNames # {} /\ ~isStale(objNamesTime))

\* ensureInfoMap without the test for a configured spreadsheet.
NeedsInfoNoSheetTest == ~(Cardinality(infoMap) > 0 /\ ~isStale(infoMapTime))

\* ensureInfoMap rebuilds (neither test of handle.go:333-338 returns).
NeedsInfo == sheetID # "" /\ ~(Cardinality(infoMap) > 0 /\ ~isStale(infoMapTime))

\* s.mu.Lock() returns: sync.RWMutex.Lock waits until no reader and no
\* writer holds the lock (handle.go:303, 330).  Go also makes a blocked
\* Lock hold back later RLock calls; a handler at a lock position may not
\* have made its call yet, so the model lets readers in and allows every
\* schedule Go does.
Lock(h) == pc[h] \in {"eon_lock", "eim_lock"} /\ writer = None /\ readers = {}

\* A read that does not wait for the writer (the RLock call left out).
RLockNoWait(h) == pc[h] = "rlock"

\* s.mu.RLock() returns: sync.RWMutex.RLock waits until no writer holds
\* the lock (handle.go:47, 126, 191, 250, 283).
RLock(h) == pc[h] = "rlock" /\ writer = None

\* What the handlers see when the caller h finishes a rebuild with the
\* given outcome and goes on to position nextpc: those that wait for the
\* same lock, having found the cache in need of a rebuild, see the outcome.
Seen(h, lockpc, outcome, nextSaw) ==
  [g \in Handlers |->
     IF g = h THEN nextSaw
     ELSE IF pc[g] = lockpc /\ saw[g] # None THEN outcome ELSE saw[g]]

\* What a caller sees at the moment of its call.
AtCall(needs) == IF needs THEN "stale" ELSE None

\* What the caller h saw while it waited for the lock: the outcome of the
\* rebuild that another caller ran meanwhile, if the cache needed a rebuild
\* when h called.
Saw(h) == IF saw[h] \in {"ok", "empty", "fail"} THEN saw[h] ELSE None

\* The event of a step of the ensure operation op ("eon", "eim") by h:
\* out is "fresh" or "noop" (returned nil at once), "begin" (started a
\* rebuild), "refreshed" (the rebuild succeeded) or "failed".
Ev(h, op, out, seen) == [h |-> h, op |-> op, out |-> out, saw |-> seen]

(***************************************************************************)
(* Initial state: the server as maincmd.serve constructs it                *)
(* (main.go:88-99): both caches nil, both timestamps zero, the lock free.  *)
(***************************************************************************)

InitCache ==
  /\ now = 0
  /\ sheetID \in {"", "sheet"}
  /\ objNames = {}
  /\ objNamesTime = ZeroTime
  /\ infoMap = {}
  /\ infoMapTime = ZeroTime
  /\ writer = None
  /\ readers = {}
  /\ pc = [h \in Handlers |-> "idle"]
  /\ route = [h \in Handlers |-> None]
  /\ iter = <<>>
  /\ resp = <<>>
  /\ rowIdx = 0
  /\ ev = NoEv
  /\ snapObj = {}
  /\ snapInfo = {}
  /\ goodObj = {}
  /\ goodInfo = {}
  /\ okEver = FALSE
  /\ okNonEmpty = FALSE
  /\ enumSinceOK = 0
  /\ saw = [h \in Handlers |-> None]

(***************************************************************************)
(* Frames.                                                                 *)
(***************************************************************************)

envVars == <<now, sheetID>>
objVars == <<objNames, objNamesTime, snapObj, goodObj, okEver, okNonEmpty,
             enumSinceOK, iter>>
infoVars == <<infoMap, infoMapTime, snapInfo, goodInfo, resp, rowIdx>>
lockVars == <<writer, readers>>

\* Handler h calls the ensure operation whose lock position is lockpc;
\* needs tells whether that cache needs a rebuild at the moment of the call.
Call(h, lockpc, needs) ==
  /\ pc' = [pc EXCEPT ![h] = lockpc]
  /\ saw' = [saw EXCEPT ![h] = AtCall(needs)]

\* Handler h returns from its request.
Return(h) ==
  /\ pc' = [pc EXCEPT ![h] = "idle"]
  /\ route' = [route EXCEPT ![h] = None]

Finish(h) == Return(h) /\ saw' = [saw EXCEPT ![h] = None]

(***************************************************************************)
(* A request arrives (server.handle, handle.go:25-53, and                  *)
(* server.handleThumb, handle.go:105-124).  The input k is the kind of     *)
(* its path: "root" is the path "" (handleDir), "infomap" the path         *)
(* "infomap", "thumb" a path under /thumbs/, "other" any other path        *)
(* (parsePath).  A request that is refused before it reaches the caches    *)
(* (401 without the credentials, handle.go:26-32; 400 for a subdirectory   *)
(* in non-subdirs mode, handle.go:170-175) changes no state and is no      *)
(* step.                                                                   *)
(***************************************************************************)
Request(h, k) ==
  /\ pc[h] = "idle"
  /\ route' = [route EXCEPT ![h] =
                 CASE k = "root" -> "dir"
                   [] k = "thumb" -> "thumb"
                   [] k = "infomap" -> "infomap"
                   [] OTHER -> "parse"]
  /\ ev' = NoEv
  /\ IF k \in {"root", "thumb"}
       THEN Call(h, "eon_lock", NeedsObj)
       ELSE Call(h, "eim_lock", NeedsInfo)
  /\ UNCHANGED <<envVars, objVars, infoVars, lockVars, certVars, rowVars, laterVars>>

(***************************************************************************)
(* server.ensureObjNames (handle.go:302-327).                              *)
(***************************************************************************)

\* Lock; the set is non-empty and not stale: return nil (lines 303-308).
\* Both callers (handleDir, handleThumb) go on to ensureInfoMap.
EnsureObjNamesFresh(h) ==
  /\ pc[h] = "eon_lock"
  /\ Lock(h)
  /\ ~NeedsObj
  /\ ev' = Ev(h, "eon", "fresh", Saw(h))
  /\ Call(h, "eim_lock", NeedsInfo)
  /\ UNCHANGED <<envVars, objVars, infoVars, lockVars, route, certVars, rowVars, laterVars>>

\* Lock; the set is nil, empty or stale: replace it by a new empty set and
\* start the enumeration (lines 303-314).  The input listing is the
\* content of the bucket at that moment.
EnsureObjNamesBegin(h, listing) ==
  /\ pc[h] = "eon_lock"
  /\ Lock(h)
  /\ NeedsObj
  /\ enumSinceOK < MaxEnum
  /\ writer' = h
  /\ snapObj' = objNames
  /\ objNames' = {}
  /\ goodObj' = goodObj
  /\ iter' = Listing(listing)
  /\ enumSinceOK' = enumSinceOK + 1
  /\ pc' = [pc EXCEPT ![h] = "eon_iter"]
  /\ saw' = [saw EXCEPT ![h] = None]
  /\ ev' = Ev(h, "eon", "begin", Saw(h))
  /\ UNCHANGED <<envVars, objNamesTime, okEver, okNonEmpty, infoVars,
                 readers, route, certVars, rowVars, laterVars>>

\* iter.Next returns the attributes of the next object (lines 316, 323).
IterNext(h) ==
  /\ pc[h] = "eon_iter"
  /\ iter # <<>>
  /\ objNames' = objNames \cup {Head(iter)}
  /\ iter' = Tail(iter)
  /\ ev' = NoEv
  /\ UNCHANGED <<envVars, objNamesTime, snapObj, goodObj, okEver,
                 okNonEmpty, enumSinceOK, infoVars, lockVars, pc, route,
                 saw, certVars, rowVars, laterVars>>

\* iter.Next returns iterator.Done: set the timestamp, unlock, return nil
\* (lines 317-319, 325-326).
IterDone(h) ==
  /\ pc[h] = "eon_iter"
  /\ iter = <<>>
  /\ objNamesTime' = now
  /\ goodObj' = objNames
  /\ snapObj' = {}
  /\ okEver' = TRUE
  /\ okNonEmpty' = (objNames # {})
  /\ enumSinceOK' = 0
  /\ writer' = None
  /\ ev' = Ev(h, "eon", "refreshed", None)
  /\ saw' = Seen(h, "eon_lock", IF objNames # {} THEN "ok" ELSE "empty",
               AtCall(NeedsInfo))
  /\ pc' = [pc EXCEPT ![h] = "eim_lock"]
  /\ UNCHANGED <<envVars, objNames, iter, infoVars, readers, route, certVars, rowVars, laterVars>>

\* IterErr with the timestamp set on the error path as well.
IterErrStamps(h) ==
  /\ pc[h] = "eon_iter"
  /\ writer' = None
  /\ iter' = <<>>
  /\ snapObj' = {}
  /\ objNamesTime' = now
  /\ ev' = Ev(h, "eon", "failed", None)
  /\ saw' = Seen(h, "eon_lock", "fail", None)
  /\ Return(h)
  /\ UNCHANGED <<envVars, objNames, goodObj, okEver, okNonEmpty,
                 enumSinceOK, infoVars, readers, certVars, rowVars, laterVars>>

\* iter.Next returns an error: unlock and return it (lines 320-322); the
\* handler wraps the error and returns.
IterErr(h) ==
  /\ pc[h] = "eon_iter"
  /\ writer' = None
  /\ iter' = <<>>
  /\ snapObj' = {}
  /\ ev' = Ev(h, "eon", "failed", None)
  /\ saw' = Seen(h, "eon_lock", "fail", None)
  /\ Return(h)
  /\ UNCHANGED <<envVars, objNames, objNamesTime, goodObj, okEver,
                 okNonEmpty, enumSinceOK, infoVars, readers, certVars, rowVars, laterVars>>

(***************************************************************************)
(* server.ensureInfoMap (handle.go:329-490) and handleSheet                *)
(* (sheet.go:21-57).  Every caller takes the read lock next.               *)
(***************************************************************************)

\* Lock; no spreadsheet is configured: return nil (lines 330-335).
EnsureInfoMapNoSheet(h) ==
  /\ pc[h] = "eim_lock"
  /\ Lock(h)
  /\ sheetID = ""
  /\ ev' = Ev(h, "eim", "noop", Saw(h))
  /\ Call(h, "rlock", FALSE)
  /\ UNCHANGED <<envVars, objVars, infoVars, lockVars, route, certVars, rowVars, laterVars>>

\* Lock; the map is non-empty and not stale: return nil (lines 336-338).
EnsureInfoMapFresh(h) ==
  /\ pc[h] = "eim_lock"
  /\ Lock(h)
  /\ sheetID # ""
  /\ ~NeedsInfo
  /\ ev' = Ev(h, "eim", "fresh", Saw(h))
  /\ Call(h, "rlock", FALSE)
  /\ UNCHANGED <<envVars, objVars, infoVars, lockVars, route, certVars, rowVars, laterVars>>

\* Lock; the map is nil, empty or stale: replace it by a new empty map and
\* call handleSheet (lines 340-344).
EnsureInfoMapBegin(h) ==
  /\ pc[h] = "eim_lock"
  /\ Lock(h)
  /\ NeedsInfo
  /\ writer' = h
  /\ snapInfo' = infoMap
  /\ infoMap' = {}
  /\ goodInfo' = goodInfo
  /\ pc' = [pc EXCEPT ![h] = "eim_get"]
  /\ saw' = [saw EXCEPT ![h] = None]
  /\ ev' = Ev(h, "eim", "begin", Saw(h))
  /\ UNCHANGED <<envVars, objVars, infoMapTime, resp, rowIdx, readers,
                 route, certVars, rowVars, laterVars>>

\* ensureInfoMap unlocks and returns the error of handleSheet
\* (handle.go:484-486); the handler wraps the error and returns.
InfoMapFail(h) ==
  /\ writer' = None
  /\ snapInfo' = {}
  /\ ev' = Ev(h, "eim", "failed", None)
  /\ saw' = Seen(h, "eim_lock", "fail", None)
  /\ Return(h)
  /\ UNCHANGED <<envVars, objVars, infoMap, infoMapTime, goodInfo, resp,
                 rowIdx, readers, certVars, rowVars, laterVars>>

\* sheetsSvc.Values.Get fails (sheet.go:22-25).
SheetGetErr(h) ==
  /\ pc[h] = "eim_get"
  /\ InfoMapFail(h)

\* The spreadsheet read has fewer than two rows (sheet.go:26-28).
SheetTooShort(h, t) ==
  /\ pc[h] = "eim_get"
  /\ Len(t) < 2
  /\ InfoMapFail(h)

\* The spreadsheet read, t, has two rows or more: the loop over the data
\* rows starts at index 1, the second row (sheet.go:30-39).
SheetGetOK(h, t) ==
  /\ pc[h] = "eim_get"
  /\ Len(t) >= 2
  /\ resp' = t
  /\ rowIdx' = 2
  /\ pc' = [pc EXCEPT ![h] = "eim_rows"]
  /\ ev' = NoEv
  /\ UNCHANGED <<envVars, objVars, infoMap, infoMapTime, snapInfo, goodInfo,
                 lockVars, route, saw, certVars, rowVars, laterVars>>

\* One turn of the loop: a row with fewer than two cells or without a name
\* is skipped (sheet.go:41-48); otherwise the callback stores the record
\* of the row under its root name and returns nil (handle.go:344-483).
SheetRow(h) ==
  /\ pc[h] = "eim_rows"
  /\ rowIdx <= Len(resp)
  /\ infoMap' = IF resp[rowIdx] = 0 THEN infoMap
                ELSE infoMap \cup {resp[rowIdx]}
  /\ rowIdx' = rowIdx + 1
  /\ ev' = NoEv
  /\ UNCHANGED <<envVars, objVars, infoMapTime, snapInfo, goodInfo, resp,
                 lockVars, pc, route, saw, certVars, rowVars, laterVars>>

\* The loop ends: handleSheet returns nil, ensureInfoMap sets the
\* timestamp, unlocks and returns nil (sheet.go:56, handle.go:488-489).
SheetDone(h) ==
  /\ pc[h] = "eim_rows"
  /\ rowIdx > Len(resp)
  /\ infoMapTime' = now
  /\ goodInfo' = infoMap
  /\ snapInfo' = {}
  /\ resp' = <<>>
  /\ rowIdx' = 0
  /\ writer' = None
  /\ ev' = Ev(h, "eim", "refreshed", None)
  /\ saw' = Seen(h, "eim_lock", IF infoMap # {} THEN "ok" ELSE "empty", None)
  /\ pc' = [pc EXCEPT ![h] = "rlock"]
  /\ UNCHANGED <<envVars, objVars, infoMap, readers, route, certVars, rowVars, laterVars>>

(***************************************************************************)
(* The reads of the caches.  A read is one step: the handler takes the     *)
(* read lock and looks the caches up (in memory).  The steps differ in     *)
(* what the handler does next and whether it still holds the lock then.    *)
(***************************************************************************)

\* server.parsePath: RLock, scan s.infoMap, return; its deferred RUnlock
\* runs (handle.go:283-299).  server.handle then calls handleDir when the
\* path is a subdirectory (line 59), handleNFO for a .nfo name (line 65),
\* and otherwise streams the object (lines 68-102).  The input out is
\* what the path resolves to.
ParsePath(h, out) ==
  /\ RLock(h)
  /\ route[h] = "parse"
  /\ route' = [route EXCEPT ![h] = out]
  /\ ev' = NoEv
  /\ CASE out = "dir" -> Call(h, "eon_lock", NeedsObj)
       [] out = "nfo" -> Call(h, "eim_lock", NeedsInfo)
       [] OTHER -> Call(h, "stream", FALSE)
  /\ UNCHANGED <<envVars, objVars, infoVars, lockVars, certVars, rowVars, laterVars>>

\* handleDir, handleNFO and the infomap route: RLock, read the caches and
\* write the response, the read lock held until the handler returns:
\* handleDir walks s.objNames and s.infoMap and executes the template
\* (handle.go:191-238), handleNFO looks the record up and encodes it
\* (250-271), the infomap route writes s.infoMap as JSON (47-50).
Lookup(h) ==
  /\ RLock(h)
  /\ route[h] \in {"dir", "nfo", "infomap"}
  /\ readers' = readers \cup {h}
  /\ pc' = [pc EXCEPT ![h] = "respond"]
  /\ ev' = NoEv
  /\ UNCHANGED <<envVars, objVars, infoVars, writer, route, saw, certVars, rowVars, laterVars>>

\* handleThumb, the thumb p is a name of s.objNames: open a reader on the
\* object and serve it, the read lock held until the handler returns
\* (handle.go:126-140).
ThumbFromBucket(h, p) ==
  /\ RLock(h)
  /\ route[h] = "thumb"
  /\ p \in objNames
  /\ readers' = readers \cup {h}
  /\ pc' = [pc EXCEPT ![h] = "serve_obj"]
  /\ ev' = NoEv
  /\ UNCHANGED <<envVars, objVars, infoVars, writer, route, saw, certVars, rowVars, laterVars>>

\* handleThumb, p is no name of s.objNames but its root has a record with
\* a matching thumb: redirect, the read lock held until the handler
\* returns (handle.go:143-166).
ThumbRedirect(h, p) ==
  /\ RLock(h)
  /\ route[h] = "thumb"
  /\ p \notin objNames
  /\ p \in infoMap
  /\ readers' = readers \cup {h}
  /\ pc' = [pc EXCEPT ![h] = "respond"]
  /\ ev' = NoEv
  /\ UNCHANGED <<envVars, objVars, infoVars, writer, route, saw, certVars, rowVars, laterVars>>

\* handleThumb, neither (no record, or no thumb of the record matches):
\* return a 404 error; the deferred RUnlock runs (handle.go:150-163).
ThumbNotFound(h, p) ==
  /\ RLock(h)
  /\ route[h] = "thumb"
  /\ p \notin objNames
  /\ ev' = NoEv
  /\ Finish(h)
  /\ UNCHANGED <<envVars, objVars, infoVars, lockVars, certVars, rowVars, laterVars>>

\* The response is written (and, for a thumb of the bucket, the object is
\* read); the handler returns and its deferred RUnlock runs.
Respond(h) ==
  /\ pc[h] \in {"respond", "serve_obj"}
  /\ readers' = readers \ {h}
  /\ ev' = NoEv
  /\ Finish(h)
  /\ UNCHANGED <<envVars, objVars, infoVars, writer, certVars, rowVars, laterVars>>

\* A media object is streamed; no lock is held (handle.go:68-102).
Stream(h) ==
  /\ pc[h] = "stream"
  /\ ev' = NoEv
  /\ Finish(h)
  /\ UNCHANGED <<envVars, objVars, infoVars, lockVars, certVars, rowVars, laterVars>>

(***************************************************************************)
(* The environment.                                                        *)
(***************************************************************************)

\* Time passes, up to the next instant.
Tick(t) ==
  /\ t > now
  /\ \A u \in Instants : u > now => t <= u
  /\ now' = t
  /\ ev' = NoEv
  /\ UNCHANGED <<sheetID, objVars, infoVars, lockVars, pc, route,
                 saw, certVars, rowVars, laterVars>>

(***************************************************************************)
(* Part 2: the certificate rotation supervisor (src/main.go).              *)
(*                                                                         *)
(* serveHelper receives certificates from the channel certCh of the        *)
(* certificate command and runs serveHelper2 once for each of them;        *)
(* serveHelper2 starts serveWithCert in a goroutine (the listener task of  *)
(* the epoch) and waits for the context, the task or the next              *)
(* certificate.  A select statement takes any of its ready cases.          *)
(***************************************************************************)

\* Initial state: serve is about to call serveHelper (main.go:101).
InitCert ==
  /\ outerDone = FALSE
  /\ produced = 0
  /\ certCh = 0
  /\ chClosed = FALSE
  /\ supPc = "start"
  /\ supErr = None
  /\ cert = 0
  /\ newCert = 0
  /\ cancelled = [e \in Epochs |-> FALSE]
  /\ task = [e \in Epochs |-> "none"]
  /\ lns = [e \in Epochs |-> "none"]
  /\ errCh = [e \in Epochs |-> None]
  /\ inflight = [e \in Epochs |-> 0]
  /\ everBound = FALSE
  /\ lastBound = 0

streamVars == <<produced, certCh, chClosed>>
histVars == <<everBound, lastBound>>

\* serveWithCert for every epoch without the wait for its context.
CtxDoneAlways(e) == TRUE

\* <-ctx.Done() of serveWithCert is ready (main.go:214): the context of
\* epoch e is the context of serveHelper2, cancelled by its cancel() or
\* with outerCtx; that of epoch 0 is the context of serve itself.
CtxDone(e) == outerDone \/ cancelled[e]

\* serveHelper2 going on without the receive from errCh.
TaskReturnedNoWait(e) == TRUE

\* err := <-errCh of serveHelper2 is ready (main.go:158, 170): the task of
\* epoch e has returned and its result is in the channel.
TaskReturned(e) == errCh[e] # None

\* h.Shutdown giving up the wait for the requests in flight.
DrainedNoWait(e) == TRUE

\* h.Shutdown has no request in flight to wait for (main.go:216): its
\* context, ctxWithoutCancel, has no deadline and is never cancelled, so
\* Shutdown waits until every request of the listener is answered.
Drained(e) == inflight[e] = 0

\* The result of ListenAndServe(TLS) passed on as it is.
ShutdownResultRaw(l) == "err"

\* What serveWithCert returns for the result l of ListenAndServe(TLS): nil
\* for ErrServerClosed, the wrapped error otherwise (main.go:219-223,
\* 226-229).
ShutdownResult(l) == IF l = "closed" THEN "nil" ELSE "err"

\* serveHelper keeping the certificate it has.
SupersedingStale == cert

\* cert = *newCertPtr (main.go:138): the certificate serveHelper serves
\* next is the one serveHelper2 received.
Superseding == newCert

\* serveHelper returns err.
SupReturn(err) == supPc' = "returned" /\ supErr' = err

\* go func() { errCh <- s.serveWithCert(ctx, &cert) ... }() and the start
\* of serveWithCert, which builds the http.Server and starts
\* ListenAndServe(TLS) in a goroutine of its own (main.go:149-152, 182-209).
StartTask(e) ==
  /\ task' = [task EXCEPT ![e] = "select"]
  /\ lns' = [lns EXCEPT ![e] = "starting"]

\* serveWithCert of epoch e returns r ("nil" or "err"): to serveHelper for
\* epoch 0 (main.go:106), into errCh of serveHelper2 otherwise (main.go:150).
TaskReturn(e, r) ==
  /\ task' = [task EXCEPT ![e] = "done"]
  /\ IF e = 0
       THEN /\ SupReturn(r)
            /\ UNCHANGED errCh
       ELSE /\ errCh' = [errCh EXCEPT ![e] = r]
            /\ UNCHANGED <<supPc, supErr>>

\* serveHelper is called with no certificate command: it serves without a
\* certificate (main.go:105-107).
SupPlain ==
  /\ supPc = "start"
  /\ supPc' = "plain"
  /\ StartTask(0)
  /\ UNCHANGED <<cacheVars, rowVars, laterVars, outerDone, streamVars, supErr, cert, newCert,
                 cancelled, errCh, inflight, histVars>>

\* certs.FromCommand starts the certificate command (main.go:109).
SupLaunch ==
  /\ supPc = "start"
  /\ supPc' = "await_first"
  /\ UNCHANGED <<cacheVars, rowVars, laterVars, outerDone, streamVars, supErr, cert, newCert,
                 cancelled, task, lns, errCh, inflight, histVars>>

\* certs.FromCommand fails (main.go:110-112).
SupLaunchFail ==
  /\ supPc = "start"
  /\ SupReturn("launch")
  /\ UNCHANGED <<cacheVars, rowVars, laterVars, outerDone, streamVars, cert, newCert, cancelled,
                 task, lns, errCh, inflight, histVars>>

\* The first select, case <-ctx.Done() (main.go:124-125).
SupFirstDone ==
  /\ supPc = "await_first"
  /\ outerDone
  /\ SupReturn("ctx")
  /\ UNCHANGED <<cacheVars, rowVars, laterVars, outerDone, streamVars, cert, newCert, cancelled,
                 task, lns, errCh, inflight, histVars>>

\* The first select, case cert, ok = <-certCh with ok (main.go:127).
SupFirstCert ==
  /\ supPc = "await_first"
  /\ certCh # 0
  /\ cert' = certCh
  /\ certCh' = 0
  /\ supPc' = "loop"
  /\ UNCHANGED <<cacheVars, rowVars, laterVars, outerDone, produced, chClosed, supErr, newCert,
                 cancelled, task, lns, errCh, inflight, histVars>>

\* The first select, certCh is closed (main.go:127-130).
SupFirstClosed ==
  /\ supPc = "await_first"
  /\ certCh = 0 /\ chClosed
  /\ SupReturn("nocert")
  /\ UNCHANGED <<cacheVars, rowVars, laterVars, outerDone, streamVars, cert, newCert, cancelled,
                 task, lns, errCh, inflight, histVars>>

\* serveHelper calls serveHelper2 with cert (main.go:134): a new context
\* and a new errCh are made and the task of the epoch starts
\* (main.go:143-152).
SupCall ==
  /\ supPc = "loop"
  /\ supPc' = "select"
  /\ StartTask(cert)
  /\ UNCHANGED <<cacheVars, rowVars, laterVars, outerDone, streamVars, supErr, cert, newCert,
                 cancelled, errCh, inflight, histVars>>

\* The select of serveHelper2, case <-outerCtx.Done(): return its error;
\* the deferred cancel runs and serveHelper returns (main.go:155-156,
\* 135-137).
SupSelectDone ==
  /\ supPc = "select"
  /\ outerDone
  /\ cancelled' = [cancelled EXCEPT ![cert] = TRUE]
  /\ SupReturn("ctx")
  /\ UNCHANGED <<cacheVars, rowVars, laterVars, outerDone, streamVars, cert, newCert, task, lns,
                 errCh, inflight, histVars>>

\* serveHelper2 answering the error of the task by starting over.
SupSelectErrRetries ==
  /\ supPc = "select"
  /\ TaskReturned(cert)
  /\ cancelled' = [cancelled EXCEPT ![cert] = TRUE]
  /\ supPc' = "loop"
  /\ UNCHANGED <<cacheVars, rowVars, laterVars, outerDone, streamVars, supErr, cert, newCert,
                 task, lns, errCh, inflight, histVars>>

\* The select of serveHelper2, case err := <-errCh: return nil and the
\* wrapped err (main.go:158-162).  serveWithCert returns no
\* context.Canceled, so err is kept; errors.Wrap of a nil err is nil, and
\* serveHelper then dereferences the nil newCertPtr (main.go:138).
SupSelectErr ==
  /\ supPc = "select"
  /\ TaskReturned(cert)
  /\ cancelled' = [cancelled EXCEPT ![cert] = TRUE]
  /\ IF errCh[cert] = "nil"
       THEN supPc' = "panicked" /\ supErr' = "nilptr"
       ELSE SupReturn("serving")
  /\ UNCHANGED <<cacheVars, rowVars, laterVars, outerDone, streamVars, cert, newCert, task, lns,
                 errCh, inflight, histVars>>

\* The select of serveHelper2, case newCert, ok := <-certCh with ok:
\* cancel the context of the running task (main.go:164, 169).
SupSelectCert ==
  /\ supPc = "select"
  /\ certCh # 0
  /\ newCert' = certCh
  /\ certCh' = 0
  /\ cancelled' = [cancelled EXCEPT ![cert] = TRUE]
  /\ supPc' = "wait_errCh"
  /\ UNCHANGED <<cacheVars, rowVars, laterVars, outerDone, produced, chClosed, supErr, cert,
                 task, lns, errCh, inflight, histVars>>

\* serveHelper2 taking the closure of certCh for a reason to start over.
SupSelectClosedRetries ==
  /\ supPc = "select"
  /\ certCh = 0 /\ chClosed
  /\ cancelled' = [cancelled EXCEPT ![cert] = TRUE]
  /\ supPc' = "loop"
  /\ UNCHANGED <<cacheVars, rowVars, laterVars, outerDone, streamVars, supErr, cert, newCert,
                 task, lns, errCh, inflight, histVars>>

\* The select of serveHelper2, certCh is closed (main.go:164-167).
SupSelectClosed ==
  /\ supPc = "select"
  /\ certCh = 0 /\ chClosed
  /\ cancelled' = [cancelled EXCEPT ![cert] = TRUE]
  /\ SupReturn("exited")
  /\ UNCHANGED <<cacheVars, rowVars, laterVars, outerDone, streamVars, cert, newCert, task, lns,
                 errCh, inflight, histVars>>

\* err := <-errCh after the cancel; return &newCert and the wrapped err
\* (main.go:171-178).  With a nil err serveHelper takes the new
\* certificate and loops (main.go:135-138), otherwise it returns.
SupAwait ==
  /\ supPc = "wait_errCh"
  /\ TaskReturned(cert)
  /\ IF errCh[cert] = "err"
       THEN SupReturn("serving") /\ UNCHANGED cert
       ELSE supPc' = "loop" /\ cert' = Superseding /\ UNCHANGED supErr
  /\ UNCHANGED <<cacheVars, rowVars, laterVars, outerDone, streamVars, newCert, cancelled, task,
                 lns, errCh, inflight, histVars>>

\* ListenAndServe(TLS) of epoch e binds the listen address and accepts
\* (main.go:203-207); the address is free.
LnsBind(e) ==
  /\ lns[e] = "starting"
  /\ \A f \in Epochs : lns[f] # "bound"
  /\ lns' = [lns EXCEPT ![e] = "bound"]
  /\ everBound' = TRUE
  /\ lastBound' = e
  /\ UNCHANGED <<cacheVars, rowVars, laterVars, outerDone, streamVars, supPc, supErr, cert,
                 newCert, cancelled, task, errCh, inflight>>

\* ListenAndServe(TLS) of epoch e returns an error other than
\* ErrServerClosed (the address cannot be bound, Accept fails).
LnsFail(e) ==
  /\ lns[e] \in {"starting", "bound"}
  /\ lns' = [lns EXCEPT ![e] = "failed"]
  /\ UNCHANGED <<cacheVars, rowVars, laterVars, outerDone, streamVars, supPc, supErr, cert,
                 newCert, cancelled, task, errCh, inflight, histVars>>

\* The select of serveWithCert, case <-ctx.Done(): h.Shutdown is called
\* (main.go:214-216).  Shutdown closes the listener at once, and
\* ListenAndServe(TLS) returns ErrServerClosed.
TaskShutdownBegin(e) ==
  /\ task[e] = "select"
  /\ CtxDone(e)
  /\ task' = [task EXCEPT ![e] = "shutdown"]
  /\ lns' = [lns EXCEPT ![e] =
               IF lns[e] \in {"starting", "bound"} THEN "closed" ELSE lns[e]]
  /\ UNCHANGED <<cacheVars, rowVars, laterVars, outerDone, streamVars, supPc, supErr, cert,
                 newCert, cancelled, errCh, inflight, histVars>>

\* The select of serveWithCert, case err := <-errCh: ListenAndServe(TLS)
\* has returned an error (main.go:225-229).
TaskSelectErr(e) ==
  /\ task[e] = "select"
  /\ lns[e] = "failed"
  /\ TaskReturn(e, "err")
  /\ UNCHANGED <<cacheVars, rowVars, laterVars, outerDone, streamVars, cert, newCert, cancelled,
                 lns, inflight, histVars>>

\* h.Shutdown returns nil when no request is in flight any more; its
\* context, ctxWithoutCancel, never ends the wait (main.go:212, 216).
TaskShutdownOK(e) ==
  /\ task[e] = "shutdown"
  /\ Drained(e)
  /\ task' = [task EXCEPT ![e] = "wait_lns"]
  /\ UNCHANGED <<cacheVars, rowVars, laterVars, outerDone, streamVars, supPc, supErr, cert,
                 newCert, cancelled, lns, errCh, inflight, histVars>>

\* h.Shutdown returns an error (closing the listener failed): serveWithCert
\* returns it (main.go:216-218).
TaskShutdownErr(e) ==
  /\ task[e] = "shutdown"
  /\ TaskReturn(e, "err")
  /\ UNCHANGED <<cacheVars, rowVars, laterVars, outerDone, streamVars, cert, newCert, cancelled,
                 lns, inflight, histVars>>

\* err := <-errCh after Shutdown: nil for ErrServerClosed, the wrapped
\* error otherwise (main.go:219-223).
TaskAwaitLns(e) ==
  /\ task[e] = "wait_lns"
  /\ lns[e] \in {"closed", "failed"}
  /\ TaskReturn(e, ShutdownResult(lns[e]))
  /\ UNCHANGED <<cacheVars, rowVars, laterVars, outerDone, streamVars, cert, newCert, cancelled,
                 lns, inflight, histVars>>

\* signal.NotifyContext cancels the context of serve (main.go:85).
Signal ==
  /\ ~outerDone
  /\ outerDone' = TRUE
  /\ UNCHANGED <<cacheVars, rowVars, laterVars, streamVars, supPc, supErr, cert, newCert,
                 cancelled, task, lns, errCh, inflight, histVars>>

\* The certificate command produces its next certificate.
CertProduce ==
  /\ supPc # "start"
  /\ ~chClosed
  /\ certCh = 0
  /\ produced < MaxCerts
  /\ produced' = produced + 1
  /\ certCh' = produced + 1
  /\ UNCHANGED <<cacheVars, rowVars, laterVars, outerDone, chClosed, supPc, supErr, cert,
                 newCert, cancelled, task, lns, errCh, inflight, histVars>>

\* The certificate command exits: certCh is closed.
CertClose ==
  /\ supPc \notin {"start", "plain"}
  /\ ~chClosed
  /\ certCh = 0
  /\ chClosed' = TRUE
  /\ UNCHANGED <<cacheVars, rowVars, laterVars, outerDone, produced, certCh, supPc, supErr,
                 cert, newCert, cancelled, task, lns, errCh, inflight,
                 histVars>>

\* A request arrives on the bound listener of epoch e.
ReqStart(e) ==
  /\ lns[e] = "bound"
  /\ inflight[e] < MaxInflight
  /\ inflight' = [inflight EXCEPT ![e] = inflight[e] + 1]
  /\ UNCHANGED <<cacheVars, rowVars, laterVars, outerDone, streamVars, supPc, supErr, cert,
                 newCert, cancelled, task, lns, errCh, histVars>>

\* A request of epoch e is answered.
ReqEnd(e) ==
  /\ inflight[e] > 0
  /\ inflight' = [inflight EXCEPT ![e] = inflight[e] - 1]
  /\ UNCHANGED <<cacheVars, rowVars, laterVars, outerDone, streamVars, supPc, supErr, cert,
                 newCert, cancelled, task, lns, errCh, histVars>>

(***************************************************************************)
(* Part 3: the row callback of ensureInfoMap (src/handle.go:344-483).      *)
(*                                                                         *)
(* A row of the spreadsheet is the name of an object followed by cells.    *)
(* A cell is a record: kind "notstr" for a cell that is no string          *)
(* (rawval.(string) fails), "empty" for the string "", "str" for any       *)
(* other string, whose content is val.  The content of a numeric cell is   *)
(* a sequence of characters; the content of a trailer cell is described    *)
(* by what net/url makes of it.  The columns of the model are title,       *)
(* year, runtime and trailer; the heading row gives their order.           *)
(***************************************************************************)

\* The characters of a numeric cell: a digit, a sign, a letter.
Chars == {"1", "-", "x"}

Digits == {"0", "1", "2", "3", "4", "5", "6", "7", "8", "9"}

DigitVal(c) ==
  CASE c = "0" -> 0 [] c = "1" -> 1 [] c = "2" -> 2 [] c = "3" -> 3
    [] c = "4" -> 4 [] c = "5" -> 5 [] c = "6" -> 6 [] c = "7" -> 7
    [] c = "8" -> 8 [] c = "9" -> 9

\* strconv.Atoi: an optional sign, then at least one digit and only digits.
Unsigned(v) == IF Len(v) > 0 /\ v[1] \in {"+", "-"} THEN Tail(v) ELSE v

AtoiOK(v) ==
  /\ Len(Unsigned(v)) > 0
  /\ \A i \in 1..Len(Unsigned(v)) : Unsigned(v)[i] \in Digits

RECURSIVE Decimal(_)
Decimal(v) ==
  IF v = <<>> THEN 0
  ELSE 10 * Decimal(SubSeq(v, 1, Len(v) - 1)) + DigitVal(v[Len(v)])

Atoi(v) ==
  IF Len(v) > 0 /\ v[1] = "-" THEN 0 - Decimal(Unsigned(v))
  ELSE Decimal(Unsigned(v))

\* What url.Parse and url.ParseQuery make of the content of a trailer cell:
\* ok is FALSE when url.Parse fails; host is u.Host; path is u.Path without
\* its leading "/"; query is "bad" when url.ParseQuery fails, "v=id" when
\* the query has a value "id" for v, "none" when it has no v.
NoURL == [ok |-> FALSE, host |-> "", path |-> "", query |-> "none"]

URLs ==
  {NoURL}
  \cup [ok : {TRUE}, host : {"www.youtube.com"}, path : {"watch", ""},
        query : {"bad", "v=id", "none"}]
  \cup [ok : {TRUE}, host : {"youtu.be"}, path : {"watch", ""},
        query : {"none"}]
  \cup [ok : {TRUE}, host : {"example.com"}, path : {"watch"},
        query : {"v=id"}]

\* The YouTube id that case "trailer" extracts, "" when it extracts none.
TrailerId(u) ==
  IF ~u.ok THEN ""
  ELSE CASE u.host = "www.youtube.com" ->
              IF u.path # "watch" THEN ""
              ELSE IF u.query = "bad" THEN ""
              ELSE IF u.query = "v=id" THEN "id" ELSE ""
         [] u.host = "youtu.be" -> u.path
         [] OTHER -> ""

\* info.Trailer for a YouTube id.
TrailerURL(ytid) == <<"plugin://plugin.video.youtube/?action=play_video&videoid=", ytid>>

TitleCells ==
  {[kind |-> "notstr", val |-> ""], [kind |-> "empty", val |-> ""],
   [kind |-> "str", val |-> "T"]}

NumCells ==
  {[kind |-> "notstr", val |-> <<>>], [kind |-> "empty", val |-> <<>>]}
  \cup {[kind |-> "str", val |-> v] :
          v \in SeqsUpTo(Chars, MaxCellLen) \ {<<>>}}

TrailerCells ==
  {[kind |-> "notstr", val |-> NoURL], [kind |-> "empty", val |-> NoURL]}
  \cup {[kind |-> "str", val |-> u] : u \in URLs}

RowInputs ==
  [title : TitleCells, year : NumCells, runtime : NumCells,
   trailer : TrailerCells]

\* The heading rows of the model, without the heading of the name column.
HeadingRows ==
  {<<"title", "year", "runtime", "trailer">>,
   <<"trailer", "runtime", "year", "title">>}

\* var info movieInfo
ZeroInfo == [Title |-> "", Year |-> 0, Runtime |-> 0, Trailer |-> <<>>]

\* The cell parses: the switch case reaches its assignment.
Parses(heading, v) ==
  CASE heading = "title" -> TRUE
    [] heading = "year" -> AtoiOK(v)
    [] heading = "runtime" -> AtoiOK(v)
    [] heading = "trailer" -> TrailerId(v) # ""

\* The assignment of the switch case.
Assign(heading, v, info) ==
  CASE heading = "title" -> [info EXCEPT !.Title = v]
    [] heading = "year" -> [info EXCEPT !.Year = Atoi(v)]
    [] heading = "runtime" -> [info EXCEPT !.Runtime = Atoi(v)]
    [] heading = "trailer" ->
         [info EXCEPT !.Trailer = TrailerURL(TrailerId(v))]

\* The loop after a cell that does not parse, with break for continue.
AfterBadCellBreaks(j, n) == n + 1

\* The loop after a cell that does not parse: continue, the next cell.
AfterBadCell(j, n) == j + 1

\* Before the first row: no headings, a row of empty cells.
NoRow ==
  [head |-> <<>>,
   cells |-> [title |-> [kind |-> "empty", val |-> ""],
              year |-> [kind |-> "empty", val |-> <<>>],
              runtime |-> [kind |-> "empty", val |-> <<>>],
              trailer |-> [kind |-> "empty", val |-> NoURL]]]

InitRow ==
  /\ rPc = "start"
  /\ rLeft = 0
  /\ rName = 0
  /\ rRow = NoRow
  /\ rJ = 0
  /\ rInfo = ZeroInfo
  /\ rTable = {}
  /\ rGiven = {}
  /\ rResult = None

\* ensureInfoMap empties the table and handleSheet reads the sheet, which
\* has a heading row and k data rows.
RefreshBegin(k) ==
  /\ rPc = "start"
  /\ rPc' = "idle"
  /\ rLeft' = k
  /\ rTable' = {}
  /\ UNCHANGED <<cacheVars, certVars, laterVars, rName, rRow, rJ, rInfo, rGiven,
                 rResult>>

\* handleSheet calls the callback for the next row: name n, headings hd,
\* cells r.
RowBegin ==
  /\ rPc = "idle"
  /\ rLeft > 0
  /\ rLeft' = rLeft - 1
  /\ \E n \in Names, hd \in HeadingRows, r \in RowInputs :
       /\ rName' = n
       /\ rRow' = [head |-> hd, cells |-> r]
       /\ rGiven' = rGiven \cup {n}
  /\ rJ' = 1
  /\ rInfo' = ZeroInfo
  /\ rPc' = "cells"
  /\ UNCHANGED <<cacheVars, certVars, laterVars, rTable, rResult>>

\* One iteration of the loop over the cells.
RowCell ==
  /\ rPc = "cells"
  /\ rJ <= Len(rRow.head)
  /\ LET heading == rRow.head[rJ]
         c == rRow.cells[heading]
     IN  IF c.kind # "str"
         THEN rJ' = rJ + 1 /\ UNCHANGED rInfo
         ELSE IF Parses(heading, c.val)
         THEN rJ' = rJ + 1 /\ rInfo' = Assign(heading, c.val, rInfo)
         ELSE rJ' = AfterBadCell(rJ, Len(rRow.head)) /\ UNCHANGED rInfo
  /\ UNCHANGED <<cacheVars, certVars, laterVars, rPc, rLeft, rName, rRow, rTable,
                 rGiven, rResult>>

\* After the loop: the title defaults to rootName and the record is stored.
RowStore ==
  /\ rPc = "cells"
  /\ rJ > Len(rRow.head)
  /\ rInfo' = IF rInfo.Title = "" THEN [rInfo EXCEPT !.Title = "root"]
              ELSE rInfo
  /\ rTable' = rTable \cup {rName}
  /\ rPc' = "stored"
  /\ UNCHANGED <<cacheVars, certVars, laterVars, rLeft, rName, rRow, rJ, rGiven,
                 rResult>>

\* The callback returns nil: its arguments and its locals are gone, and
\* handleSheet goes on to the next row.
RowReturn ==
  /\ rPc = "stored"
  /\ rPc' = "idle"
  /\ rName' = 0
  /\ rRow' = NoRow
  /\ rJ' = 0
  /\ rInfo' = ZeroInfo
  /\ UNCHANGED <<cacheVars, certVars, laterVars, rLeft, rTable, rGiven, rResult>>

\* handleSheet has passed every row and returns nil; so does ensureInfoMap.
RefreshDone ==
  /\ rPc = "idle"
  /\ rLeft = 0
  /\ rPc' = "done"
  /\ rResult' = "nil"
  /\ UNCHANGED <<cacheVars, certVars, laterVars, rLeft, rName, rRow, rJ, rInfo, rTable,
                 rGiven>>

(***************************************************************************)
(* Part 4: the paths of the server (src/main.go:239-243 and                *)
(* src/handle.go:34-103, 169-239, 274-300).                                *)
(*                                                                         *)
(* Names, labels and paths are strings.  The upstream data (the records    *)
(* of the spreadsheet and the objects of the bucket) and the -subdirs      *)
(* flag are chosen once; s.infoMap is loaded from them by the             *)
(* ensureInfoMap of each operation, which may find the table fresh,        *)
(* reload it, or fail; ensureObjNames gives the objects of the bucket or   *)
(* fails.  Of a record only info.subdir is kept.                           *)
(***************************************************************************)

\* The root names of the model.
Roots == {"Alien", "Brazil", "Casablanca"}

\* base64.URLEncoding.EncodeToString(sha256.Sum256([]byte(rootName))) for
\* the root names of the model.
hash64(rootName) ==
  CASE rootName = "Alien" -> "cuRkawv-NiDT2dHmWg6kqMCxFoL0yG-YehntZogqIQY="
    [] rootName = "Brazil" -> "B_YrAhdx089n4uH68YdpzF5cEZrX1NGEehHhHW1afss="
    [] rootName = "Casablanca" ->
         "jOedqRtU0opplj666q0QLVfNZanc20ziZVgehq-Kf5g="

\* rootNamePrefix with a salt of the process: the 7 characters are taken
\* from a position that depends on the restart count.
rootNamePrefixSalted(rootName) ==
  SubSeq(hash64(rootName), 1 + pBoot, 7 + pBoot) \o "-"

\* func rootNamePrefix(rootName string) string
rootNamePrefix(rootName) == SubSeq(hash64(rootName), 1, 7) \o "-"

\* strings.HasSuffix, strings.HasPrefix, strings.TrimSuffix,
\* strings.TrimPrefix.
HasSuffix(s, suf) ==
  Len(s) >= Len(suf) /\ SubSeq(s, Len(s) - Len(suf) + 1, Len(s)) = suf

HasPrefix(s, pre) == Len(s) >= Len(pre) /\ SubSeq(s, 1, Len(pre)) = pre

TrimSuffix(s, suf) ==
  IF HasSuffix(s, suf) THEN SubSeq(s, 1, Len(s) - Len(suf)) ELSE s

TrimPrefix(s, pre) ==
  IF HasPrefix(s, pre) THEN SubSeq(s, Len(pre) + 1, Len(s)) ELSE s

\* filepath.Ext: the suffix that starts at the last dot of the last
\* element of the path, "" when there is no dot.
RECURSIVE ExtFrom(_, _)
ExtFrom(path, i) ==
  IF i = 0 THEN ""
  ELSE IF SubSeq(path, i, i) = "/" THEN ""
  ELSE IF SubSeq(path, i, i) = "." THEN SubSeq(path, i, Len(path))
  ELSE ExtFrom(path, i - 1)

Ext(path) == ExtFrom(path, Len(path))

\* The subdirectory labels of the model: none, a plain one, and one that
\* reads like the path of a listed object.
Labels == {"", "SciFi", "cuRkawv-Alien.iso"}

\* The spreadsheets of part 4: records for some of Alien and Brazil.
Tables == UNION {[S -> Labels] : S \in SUBSET {"Alien", "Brazil"}}

NoTable == [r \in {} |-> ""]

\* The buckets of part 4.
Buckets == {{"Alien.iso"}, {"Alien.iso", "Brazil.m4v", "Casablanca.iso"}}

\* The request paths of the model, after strings.Trim(req.URL.Path, "/").
Paths ==
  {"", "infomap", "SciFi", "cuRkawv-Alien.iso", "cuRkawv-Alien.nfo",
   "SciFi/cuRkawv-Alien.iso", "B_YrAhd-Brazil.m4v", "Alien.iso", "a.iso"}

\* How an ensure call finds its cache: "fresh" (non-empty and not stale),
\* "load" (the refresh succeeds), "fail" (the refresh fails).
Modes == {"fresh", "load", "fail"}

\* s.ensureInfoMap on the table t.  A failed refresh leaves the map that
\* line 342 made.
ensureInfoMap(mode, t) ==
  CASE mode = "fresh" -> [ok |-> DOMAIN t # {}, err |-> FALSE, table |-> t]
    [] mode = "load" -> [ok |-> TRUE, err |-> FALSE, table |-> pUp.table]
    [] mode = "fail" -> [ok |-> TRUE, err |-> TRUE, table |-> NoTable]

\* s.ensureObjNames: s.objNames holds the objects of the bucket, whether
\* it was fresh or has been reloaded, or the enumeration fails.
ensureObjNames(mode) ==
  IF mode = "fail" THEN [err |-> TRUE, objs |-> {}]
  ELSE [err |-> FALSE, objs |-> pUp.objs]

\* What one turn of the loop of parsePath returns for the record of
\* rootName with info.subdir = label; hit is FALSE when it returns nothing.
RecordMatch(path, rootName, label) ==
  LET pathRoot == TrimSuffix(path, Ext(path))
      prefix == rootNamePrefix(rootName)
  IN  IF path = label
      THEN [hit |-> TRUE, subdir |-> path, key |-> "", err |-> "nil"]
      ELSE IF pathRoot = label \o "/" \o prefix \o rootName
      THEN [hit |-> TRUE, subdir |-> label,
            key |-> TrimPrefix(path, label \o "/"), err |-> "nil"]
      ELSE IF pathRoot = prefix \o rootName
      THEN [hit |-> TRUE, subdir |-> "", key |-> path, err |-> "nil"]
      ELSE [hit |-> FALSE, subdir |-> "", key |-> "", err |-> "nil"]

\* The matches of the records of t.
Hits(t, path) ==
  {m \in {RecordMatch(path, r, t[r]) : r \in DOMAIN t} : m.hit}

\* parsePath after the loop, rejecting the path.
UnresolvedRejects(path) ==
  [hit |-> FALSE, subdir |-> "", key |-> "", err |-> "no match"]

\* parsePath after the loop: return "", path, nil.
Unresolved(path) ==
  [hit |-> FALSE, subdir |-> "", key |-> path, err |-> "nil"]

\* What parsePath can return on the table t: the match of the first
\* matching record in the order of the range over the map, which is any
\* order; the raw path when no record matches.
parsePath(t, path) ==
  IF Hits(t, path) = {} THEN {Unresolved(path)} ELSE Hits(t, path)

\* The extensions that handleDir lets through: the switch of lines 197-202
\* and the test of lines 204-206.
Listed(ext) == ext \in {".iso", ".m2ts", ".m4v"} /\ ext = ".iso"

\* handleDir lists objName under subdir (lines 208-215).
Belongs(objName, subdir, t) ==
  LET rootName == TrimSuffix(objName, Ext(objName))
      ok == rootName \in DOMAIN t
  IN  /\ ~(ok /\ pUp.subdirs /\ t[rootName] # subdir)
      /\ ~(~ok /\ pUp.subdirs /\ subdir # "")

\* The two items of an object (lines 222-223).
ObjItems(objName) ==
  LET rootName == TrimSuffix(objName, Ext(objName))
      prefix == rootNamePrefix(rootName)
  IN  SetToBag({prefix \o objName}) (+)
      SetToBag({prefix \o rootName \o ".nfo"})

\* The items of the objects of S, in the order of objNames.Each.
RECURSIVE ItemsOf(_)
ItemsOf(S) ==
  IF S = {} THEN EmptyBag
  ELSE LET x == CHOOSE y \in S : TRUE IN ObjItems(x) (+) ItemsOf(S \ {x})

\* The subdirectory items: one for every distinct label (lines 227-235).
SubdirItems(t) == SetToBag({t[r] \o "/" : r \in {q \in DOMAIN t : t[q] # ""}})

\* The items of handleDir (lines 194-236).
Items(subdir, t, o) ==
  ItemsOf({objName \in o :
             Listed(Ext(objName)) /\ Belongs(objName, subdir, t)})
  (+) (IF pUp.subdirs /\ subdir = "" THEN SubdirItems(t) ELSE EmptyBag)

\* The path under which a client that follows the listings asks for the
\* object objName: the item of handleDir, below the subdirectory item when
\* the object is listed in a subdirectory.
MediaPath(objName) ==
  LET rootName == TrimSuffix(objName, Ext(objName))
      item == rootNamePrefix(rootName) \o objName
  IN  IF pUp.subdirs /\ rootName \in DOMAIN pUp.table
         /\ pUp.table[rootName] # ""
      THEN pUp.table[rootName] \o "/" \o item
      ELSE item

MediaPaths == {MediaPath(objName) : objName \in {x \in pUp.objs : Listed(Ext(x))}}

NoOut ==
  [op |-> "none", path |-> "", resp |-> "", subdir |-> "", key |-> "",
   hit |-> FALSE, items |-> EmptyBag]

\* s.handleDir(w, req, subdir) on the table t.  ok says that the modes
\* are possible: a call that is not made has the mode "load".
handleDir(subdir, mo, mt, t) ==
  LET eo == ensureObjNames(mo)
      et == ensureInfoMap(mt, t)
      base == [NoOut EXCEPT !.subdir = subdir]
  IN  IF ~pUp.subdirs /\ subdir # ""
      THEN [ok |-> mo = "load" /\ mt = "load", table |-> t,
            out |-> [base EXCEPT !.resp = "badrequest"]]
      ELSE IF eo.err
      THEN [ok |-> mt = "load", table |-> t,
            out |-> [base EXCEPT !.resp = "error"]]
      ELSE IF et.err
      THEN [ok |-> et.ok, table |-> et.table,
            out |-> [base EXCEPT !.resp = "error"]]
      ELSE [ok |-> et.ok, table |-> et.table,
            out |-> [base EXCEPT !.resp = "dir",
                                 !.items = Items(subdir, et.table, eo.objs)]]

InitPath ==
  /\ pPc = "start"
  /\ pUp = [table |-> NoTable, objs |-> {}, subdirs |-> FALSE]
  /\ pTable = NoTable
  /\ pBoot = 0
  /\ pOut = NoOut
  /\ pFirst = NoOut
  /\ pPrefixes = {}

otherThanPath == <<cacheVars, certVars, rowVars, ctxVars, cellVars, moreVars>>

\* The server is started with the flag -subdirs = sd over a spreadsheet
\* with the records t and a bucket with the objects o (src/main.go:84-102).
Configure(t, o, sd) ==
  /\ pPc = "start"
  /\ pPc' = "run"
  /\ pUp' = [table |-> t, objs |-> o, subdirs |-> sd]
  /\ UNCHANGED <<otherThanPath, pTable, pBoot, pOut, pFirst, pPrefixes>>

\* A call of s.parsePath(ctx, path).  resp is the error it returns: that
\* of ensureInfoMap (lines 275-278) or that of the scan.
Resolve(path, mt) ==
  /\ pPc = "run"
  /\ path # ""
  /\ LET et == ensureInfoMap(mt, pTable)
     IN  /\ et.ok
         /\ pTable' = et.table
         /\ IF et.err
            THEN /\ pOut' = [NoOut EXCEPT !.op = "resolve", !.path = path,
                                          !.resp = "ensureInfoMap"]
                 /\ UNCHANGED pFirst
            ELSE \E m \in parsePath(et.table, path) :
                   /\ pOut' = [NoOut EXCEPT !.op = "resolve",
                                            !.path = path, !.resp = m.err,
                                            !.subdir = m.subdir,
                                            !.key = m.key, !.hit = m.hit]
                   /\ pFirst' = IF pFirst.op = "none" /\ path \in MediaPaths
                                THEN pOut' ELSE pFirst
  /\ UNCHANGED <<otherThanPath, pPc, pUp, pBoot, pPrefixes>>

\* A call of s.handleDir(w, req, subdir).
ListEntries(subdir, mo, mt) ==
  /\ pPc = "run"
  /\ LET d == handleDir(subdir, mo, mt, pTable)
     IN  /\ d.ok
         /\ pTable' = d.table
         /\ pOut' = [d.out EXCEPT !.op = "list"]
  /\ UNCHANGED <<otherThanPath, pPc, pUp, pBoot, pFirst, pPrefixes>>

\* What handle does with the key that parsePath returned (lines 62-102),
\* on the table t.
serveKey(key, mt, t) ==
  IF Len(key) < 8
  THEN [ok |-> TRUE, table |-> t,
        out |-> [NoOut EXCEPT !.resp = "panic"]]
  ELSE LET objname == SubSeq(key, 9, Len(key))
           et == ensureInfoMap(mt, t)
       IN  IF HasSuffix(objname, ".nfo")
           THEN [ok |-> et.ok, table |-> et.table,
                 out |-> IF et.err THEN [NoOut EXCEPT !.resp = "error"]
                         ELSE [NoOut EXCEPT !.resp = "nfo",
                                            !.key = TrimSuffix(objname, ".nfo")]]
           ELSE [ok |-> mt = "load", table |-> t,
                 out |-> IF objname \in pUp.objs
                         THEN [NoOut EXCEPT !.resp = "object", !.key = objname]
                         ELSE [NoOut EXCEPT !.resp = "noobject",
                                            !.key = objname]]

\* A request for path: s.handle after the authentication (lines 34-102).
\* m1 is the mode of the ensureInfoMap of parsePath, mo and m2 are the
\* modes of the ensure calls that follow it.
Handle(path, m1, mo, m2) ==
  /\ pPc = "run"
  /\ IF path = ""
     THEN LET d == handleDir("", mo, m2, pTable)
          IN  /\ m1 = "load" /\ d.ok
              /\ pTable' = d.table
              /\ pOut' = [d.out EXCEPT !.op = "handle", !.path = path]
     ELSE LET et == ensureInfoMap(m1, pTable)
          IN  /\ et.ok
              /\ IF et.err \/ path = "infomap"
                 THEN /\ mo = "load" /\ m2 = "load"
                      /\ pTable' = et.table
                      /\ pOut' = [NoOut EXCEPT
                                    !.op = "handle", !.path = path,
                                    !.resp = IF et.err THEN "error"
                                             ELSE "json"]
                 ELSE \E m \in parsePath(et.table, path) :
                        IF m.err # "nil"
                        THEN /\ mo = "load" /\ m2 = "load"
                             /\ pTable' = et.table
                             /\ pOut' = [NoOut EXCEPT !.op = "handle",
                                                      !.path = path,
                                                      !.resp = "error"]
                        ELSE IF m.key = ""
                        THEN LET d == handleDir(m.subdir, mo, m2, et.table)
                             IN  /\ d.ok
                                 /\ pTable' = d.table
                                 /\ pOut' = [d.out EXCEPT !.op = "handle",
                                                          !.path = path,
                                                          !.hit = m.hit]
                        ELSE LET k == serveKey(m.key, m2, et.table)
                             IN  /\ mo = "load" /\ k.ok
                                 /\ pTable' = k.table
                                 /\ pOut' = [k.out EXCEPT !.op = "handle",
                                                          !.path = path,
                                                          !.hit = m.hit,
                                                          !.subdir = m.subdir]
  /\ UNCHANGED <<otherThanPath, pPc, pUp, pBoot, pFirst, pPrefixes>>

\* A call of rootNamePrefix(rootName).
CallPrefix(rootName) ==
  /\ pPrefixes' = pPrefixes \cup
       {[root |-> rootName, boot |-> pBoot,
         prefix |-> rootNamePrefix(rootName)]}
  /\ UNCHANGED <<otherThanPath, pPc, pUp, pTable, pBoot, pOut, pFirst>>

\* The process is stopped and started again over the same upstream data:
\* the caches start empty.
Restart ==
  /\ pBoot < MaxBoots
  /\ pBoot' = pBoot + 1
  /\ pTable' = NoTable
  /\ pOut' = NoOut
  /\ UNCHANGED <<otherThanPath, pPc, pUp, pFirst, pPrefixes>>

(***************************************************************************)
(* Part 5: cancellation and the backing calls of a refresh                 *)
(* (src/handle.go:302-327, 329-490; src/sheet.go:21-57).                   *)
(*                                                                         *)
(* ensureObjNames gives ctx to s.bucket.Objects: the iterator returns the  *)
(* objects of the page it holds and fetches the next page under ctx.       *)
(* ensureInfoMap gives no context to handleSheet, whose                    *)
(* Values.Get(...).Do() runs under no context of the caller.               *)
(***************************************************************************)

otherThanCtx == <<cacheVars, certVars, rowVars, pathVars, cellVars, moreVars>>

\* The listings of the bucket: the sizes of its pages.  An empty bucket
\* has one page without objects.
Listings == SeqsUpTo(0..MaxPageLen, MaxPages) \ {<<>>}

InitCtx ==
  /\ xPc = "start"
  /\ xCtx = FALSE
  /\ xPages = <<>>
  /\ xBuf = 0
  /\ xGot = 0
  /\ xRes = None
  /\ xDuring = FALSE

\* ensureObjNames finds the set stale: iter := s.bucket.Objects(ctx, nil)
\* over a bucket whose listing is l.
ObjsCall(l) ==
  /\ xPc = "start"
  /\ xPc' = "objs"
  /\ xPages' = l
  /\ UNCHANGED <<otherThanCtx, xCtx, xBuf, xGot, xRes, xDuring>>

\* iter.Next() with an object in the page at hand: s.objNames.Add.
ObjsNext ==
  /\ xPc = "objs"
  /\ xBuf > 0
  /\ xBuf' = xBuf - 1
  /\ xGot' = xGot + 1
  /\ UNCHANGED <<otherThanCtx, xPc, xCtx, xPages, xRes, xDuring>>

\* iter.Next() with no object at hand and a page to fetch: the request is
\* made under ctx, and fails when ctx is cancelled.
ObjsFetch ==
  /\ xPc = "objs"
  /\ xBuf = 0
  /\ xPages # <<>>
  /\ IF xCtx
     THEN /\ xPc' = "returned"
          /\ xRes' = "err"
          /\ UNCHANGED <<xPages, xBuf>>
     ELSE /\ xBuf' = Head(xPages)
          /\ xPages' = Tail(xPages)
          /\ UNCHANGED <<xPc, xRes>>
  /\ UNCHANGED <<otherThanCtx, xCtx, xGot, xDuring>>

\* iter.Next() returns iterator.Done: the stamp is set, nil is returned.
ObjsDone ==
  /\ xPc = "objs"
  /\ xBuf = 0
  /\ xPages = <<>>
  /\ xPc' = "returned"
  /\ xRes' = "nil"
  /\ UNCHANGED <<otherThanCtx, xCtx, xPages, xBuf, xGot, xDuring>>

\* ensureInfoMap finds the table stale: handleSheet calls
\* sheetsSvc.Values.Get(sheetID, "Sheet1!A:Z").Do().
SheetCall ==
  /\ xPc = "start"
  /\ xPc' = "sheet"
  /\ UNCHANGED <<otherThanCtx, xCtx, xPages, xBuf, xGot, xRes, xDuring>>

\* Do() returns the values, the rows are stored and ensureInfoMap returns
\* nil; or Do() returns an error of its own.  ctx is not consulted.
SheetReturn(r) ==
  /\ xPc = "sheet"
  /\ xPc' = "returned"
  /\ xRes' = r
  /\ UNCHANGED <<otherThanCtx, xCtx, xPages, xBuf, xGot, xDuring>>

\* The context of the request is cancelled (the client has gone away, or
\* the server is shutting down).
Cancel ==
  /\ xPc # "returned"
  /\ ~xCtx
  /\ xCtx' = TRUE
  /\ xDuring' = (xPc = "sheet" \/ (xPc = "objs" /\ xPages # <<>>))
  /\ UNCHANGED <<otherThanCtx, xPc, xPages, xBuf, xGot, xRes>>

(***************************************************************************)
(* Part 6: cellName (src/sheet.go:238-248).  Names are strings.            *)
(***************************************************************************)

otherThanCell == <<cacheVars, certVars, rowVars, pathVars, ctxVars, moreVars>>

\* string(byte(col) + 'A') for col < 26.
Letter(col) == SubSeq("ABCDEFGHIJKLMNOPQRSTUVWXYZ", col + 1, col + 1)

\* colName without the carry: col/26 for col/26-1.
RECURSIVE colNameNoCarry(_)
colNameNoCarry(col) ==
  IF col < 26 THEN Letter(col)
  ELSE colNameNoCarry(col \div 26) \o colNameNoCarry(col % 26)

\* func colName(col int) string
RECURSIVE colName(_)
colName(col) ==
  IF col < 26 THEN Letter(col)
  ELSE colName(col \div 26 - 1) \o colName(col % 26)

\* The verb %d of fmt.Sprintf for n >= 0.
RECURSIVE Itoa(_)
Itoa(n) ==
  IF n < 10 THEN SubSeq("0123456789", n + 1, n + 1)
  ELSE Itoa(n \div 10) \o SubSeq("0123456789", (n % 10) + 1, (n % 10) + 1)

\* func cellName(row, col int) string
cellName(row, col) == colName(col) \o Itoa(row + 1)

InitCell ==
  /\ cPc = "start"
  /\ cRow = 0
  /\ cCol = 0
  /\ cName = ""

\* A call of cellName(row, col).
CellNameCall(row, col) ==
  /\ cPc = "start"
  /\ cPc' = "done"
  /\ cRow' = row
  /\ cCol' = col
  /\ cName' = cellName(row, col)
  /\ UNCHANGED otherThanCell

(***************************************************************************)
(* Part 7 (SpecSort): sortTitle and intToWords of src/sort.go.  A title is *)
(* a string; the words of a title are a sequence of strings.               *)
(***************************************************************************)

\* The variables of the parts 1 to 6.
earlierVars == <<cacheVars, certVars, rowVars, pathVars, ctxVars, cellVars>>

otherThanSort ==
  <<earlierVars, updVars, authVars, thumbVars, readerVars, logVars>>

Lowers == "abcdefghijklmnopqrstuvwxyz"

IsUpper(c) == \E i \in 0..25 : Letter(i) = c

IsLower(c) == \E i \in 1..26 : SubSeq(Lowers, i, i) = c

IsDigit(c) == \E i \in 1..10 : SubSeq("0123456789", i, i) = c

\* strings.TrimSpace
RECURSIVE TrimSpace(_)
TrimSpace(s) ==
  IF HasPrefix(s, " ") /\ Len(s) > 0 THEN TrimSpace(SubSeq(s, 2, Len(s)))
  ELSE IF HasSuffix(s, " ") /\ Len(s) > 0
       THEN TrimSpace(SubSeq(s, 1, Len(s) - 1))
       ELSE s

\* strings.ToLower, over the letters A-Z
RECURSIVE ToLower(_)
ToLower(s) ==
  IF s = "" THEN ""
  ELSE LET c == SubSeq(s, 1, 1)
           lc == IF IsUpper(c)
                 THEN LET i == CHOOSE i \in 0..25 : Letter(i) = c
                      IN  SubSeq(Lowers, i + 1, i + 1)
                 ELSE c
       IN  lc \o ToLower(SubSeq(s, 2, Len(s)))

\* strings.ReplaceAll(s, old, new) for an old of one character
RECURSIVE ReplaceAll(_, _, _)
ReplaceAll(s, old, new) ==
  IF s = "" THEN ""
  ELSE (IF SubSeq(s, 1, 1) = old THEN new ELSE SubSeq(s, 1, 1))
       \o ReplaceAll(SubSeq(s, 2, Len(s)), old, new)

\* strings.Map with the function of sort.go:21-26: keep only letters,
\* digits and whitespace.
RECURSIVE KeepLettersDigitsSpace(_)
KeepLettersDigitsSpace(s) ==
  IF s = "" THEN ""
  ELSE LET c == SubSeq(s, 1, 1)
       IN  (IF IsUpper(c) \/ IsLower(c) \/ IsDigit(c) \/ c = " "
            THEN c ELSE "")
           \o KeepLettersDigitsSpace(SubSeq(s, 2, Len(s)))

\* strings.Fields: the maximal runs of characters other than the space;
\* word is the run being read.
RECURSIVE FieldsFrom(_, _)
FieldsFrom(s, word) ==
  IF s = "" THEN (IF word = "" THEN <<>> ELSE <<word>>)
  ELSE IF SubSeq(s, 1, 1) = " "
       THEN (IF word = "" THEN <<>> ELSE <<word>>)
            \o FieldsFrom(SubSeq(s, 2, Len(s)), "")
       ELSE FieldsFrom(SubSeq(s, 2, Len(s)), word \o SubSeq(s, 1, 1))

Fields(s) == FieldsFrom(s, "")

\* strings.Join(f, " ")
RECURSIVE Join(_)
Join(f) ==
  IF f = <<>> THEN ""
  ELSE IF Len(f) = 1 THEN f[1]
       ELSE f[1] \o " " \o Join(Tail(f))

\* How many digits the word starts with, from position k + 1 on.
RECURSIVE LeadDigits(_, _)
LeadDigits(word, k) ==
  IF k < Len(word) /\ IsDigit(SubSeq(word, k + 1, k + 1))
  THEN LeadDigits(word, k + 1) ELSE k

\* numRegex.FindStringSubmatch for ^(\d+)(st|nd|rd|th)?$ : ok is
\* len(m) > 0, num is m[1], suffix is m[2].
numRegex(word) ==
  LET k == LeadDigits(word, 0)
      rest == SubSeq(word, k + 1, Len(word))
  IN  IF k >= 1 /\ rest \in {"", "st", "nd", "rd", "th"}
      THEN [ok |-> TRUE, num |-> SubSeq(word, 1, k), suffix |-> rest]
      ELSE [ok |-> FALSE, num |-> "", suffix |-> ""]

\* strconv.ParseInt(digits, 10, 64) of a string of digits (the titles of
\* the model have too few digits for a range error).
RECURSIVE ParseInt(_)
ParseInt(digits) ==
  IF digits = "" THEN 0
  ELSE 10 * ParseInt(SubSeq(digits, 1, Len(digits) - 1))
       + (CHOOSE i \in 0..9 :
            SubSeq("0123456789", i + 1, i + 1)
              = SubSeq(digits, Len(digits), Len(digits)))

\* w[len(w)-1] += "th"
AddTh(w) == [w EXCEPT ![Len(w)] = @ \o "th"]

\* func intToWords(n int64, ordinal bool) []string
RECURSIVE intToWords(_, _)
intToWords(n, ordinal) ==
  IF ordinal /\ n < 10 THEN
    <<CASE n = 0 -> "zeroth" [] n = 1 -> "first" [] n = 2 -> "second"
        [] n = 3 -> "third" [] n = 5 -> "fifth" [] n = 8 -> "eighth"
        [] n = 9 -> "ninth"
        [] OTHER -> intToWords(n, FALSE)[1] \o "th">>
  ELSE IF n < 20 THEN
    LET x == CASE n = 0 -> "zero" [] n = 1 -> "one" [] n = 2 -> "two"
               [] n = 3 -> "three" [] n = 4 -> "four" [] n = 5 -> "five"
               [] n = 6 -> "six" [] n = 7 -> "seven" [] n = 8 -> "eight"
               [] n = 9 -> "nine" [] n = 10 -> "ten" [] n = 11 -> "eleven"
               [] n = 12 -> "twelve" [] n = 13 -> "thirteen"
               [] n = 14 -> "fourteen" [] n = 15 -> "fifteen"
               [] n = 16 -> "sixteen" [] n = 17 -> "seventeen"
               [] n = 18 -> "eighteen" [] n = 19 -> "nineteen"
    IN  <<IF ordinal THEN x \o "th" ELSE x>>
  ELSE IF ordinal /\ n \in {20, 30, 40, 50, 60, 70, 80, 90} THEN
    <<CASE n = 20 -> "twentieth" [] n = 30 -> "thirtieth"
        [] n = 40 -> "fortieth" [] n = 50 -> "fiftieth"
        [] n = 60 -> "sixtieth" [] n = 70 -> "seventieth"
        [] n = 80 -> "eightieth" [] n = 90 -> "ninetieth">>
  ELSE IF n < 100 THEN
    LET s == CASE n < 30 -> "twenty" [] n >= 30 /\ n < 40 -> "thirty"
               [] n >= 40 /\ n < 50 -> "forty"
               [] n >= 50 /\ n < 60 -> "fifty"
               [] n >= 60 /\ n < 70 -> "sixty"
               [] n >= 70 /\ n < 80 -> "seventy"
               [] n >= 80 /\ n < 90 -> "eighty"
               [] OTHER -> "ninety"
        r == n % 10
    IN  <<IF r > 0 THEN s \o "-" \o intToWords(r, ordinal)[1] ELSE s>>
  ELSE IF n < 1000 THEN
    LET q == n \div 100
        r == n % 100
        w == intToWords(q, FALSE) \o <<"hundred">>
             \o (IF r > 0 THEN intToWords(r, ordinal) ELSE <<>>)
    IN  IF ordinal /\ r = 0 THEN AddTh(w) ELSE w
  ELSE IF ~ordinal /\ n >= 1100 /\ n < 3000 /\ ~(n >= 2000 /\ n < 2010) THEN
    LET q == n \div 100
        r == n % 100
    IN  intToWords(q, FALSE)
        \o (IF r < 10 THEN <<"hundred">> ELSE <<>>)
        \o (IF r > 0 THEN intToWords(r, FALSE) ELSE <<>>)
  ELSE IF n < 1000000 THEN
    LET q == n \div 1000
        r == n % 1000
        w == intToWords(q, FALSE) \o <<"thousand">>
             \o (IF r > 0 THEN intToWords(r, ordinal) ELSE <<>>)
    IN  IF ordinal /\ n % 100 = 0 THEN AddTh(w) ELSE w
  ELSE IF n < 1000000000 THEN
    LET q == n \div 1000000
        r == n % 1000000
        w == intToWords(q, FALSE) \o <<"million">>
             \o (IF r > 0 THEN intToWords(r, ordinal) ELSE <<>>)
    IN  IF ordinal /\ n % 100 = 0 THEN AddTh(w) ELSE w
  ELSE
    LET q == n \div 1000000000
        r == n % 1000000000
        w == intToWords(q, FALSE) \o <<"billion">>
             \o (IF r > 0 THEN intToWords(r, ordinal) ELSE <<>>)
    IN  IF ordinal /\ n % 100 = 0 THEN AddTh(w) ELSE w

\* The words f of sortTitle after the article is dropped (sort.go:15-36),
\* for a title with more than one word after its article.
sortFields(s) ==
  LET f == Fields(KeepLettersDigitsSpace(
             ReplaceAll(ReplaceAll(ToLower(TrimSpace(s)), "&", " and "),
                        "-", " ")))
  IN  IF f[1] \in {"a", "the", "an"} /\ Len(f) > 1 THEN Tail(f) ELSE f

\* func sortTitle(s string) string, for a title with at least one word
sortTitle(s) ==
  LET f == sortFields(s)
      m == numRegex(f[1])
  IN  IF m.ok
      THEN Join(intToWords(ParseInt(m.num), m.suffix # "") \o Tail(f))
      ELSE Join(f)

\* Larger numbers: in the hundreds, the thousands and above.
SortLargeNums ==
  {200, 501, 600, 999, 1000, 1001, 1100, 1984, 2001, 2500, 10000, 1000000,
   1000100}

\* The titles of the model: an optional article, a number with or without
\* an ordinal suffix, and more words or none; and two titles without a
\* number.
SortTitles ==
  {a \o Itoa(n) \o suf \o rest :
     a \in {"", "The "}, n \in (0..MaxSortNum) \cup SortLargeNums,
     suf \in {"", "st", "nd", "rd", "th"},
     rest \in {"", " Days-Later"}}
  \cup {" A Fish & Chips ", "An"}

InitSort ==
  /\ sPc = "start"
  /\ sTitle = ""
  /\ sOut = ""

\* A call of sortTitle(title).
SortTitleCall(title) ==
  /\ sPc = "start"
  /\ sPc' = "done"
  /\ sTitle' = title
  /\ sOut' = sortTitle(title)
  /\ UNCHANGED otherThanSort

\* The caller takes the result; the next call can begin.
SortTitleReturn ==
  /\ sPc = "done"
  /\ sPc' = "start"
  /\ sTitle' = ""
  /\ sOut' = ""
  /\ UNCHANGED otherThanSort

NextSort ==
  \/ \E title \in SortTitles : SortTitleCall(title)
  \/ SortTitleReturn

(***************************************************************************)
(* Part 8 (SpecUpd): the row callback of updateSpreadsheet                 *)
(* (src/sheet.go:90-235).  A cell is a record: str is whether its value    *)
(* is a string, val the string.  Columns are counted from 0 as in the      *)
(* code: column j of a row is row[j + 1] here.                             *)
(***************************************************************************)

otherThanUpd ==
  <<earlierVars, sortVars, authVars, thumbVars, readerVars, logVars>>

StrCell(v) == [str |-> TRUE, val |-> v]

NonStrCell == [str |-> FALSE, val |-> ""]

\* The cells of the model: empty, a space, a value, a value that is not a
\* string.
UpdCells == {StrCell(""), StrCell(" "), StrCell("tt1"), NonStrCell}

\* The heading rows of the model, in lower case as handleSheet passes them.
UpdHeadings ==
  {<<"name", "imdbid", "year", "plot">>,
   <<"name", "year", "imdbid", "runtime">>,
   <<"name", "year", "notes">>}

\* The rows that handleSheet passes to the callback: a name that is a
\* string, then one cell at least (sheet.go:41-49).
UpdRows ==
  {<<StrCell("Alien")>> \o q : q \in SeqsUpTo(UpdCells, MaxUpdCols) \ {<<>>}}

\* What the lookup found: whether DatePublished has three parts, and
\* RuntimeMins.
UpdInfos == [date3 : BOOLEAN, RuntimeMins : {0, 117}]

NoInfo == [date3 |-> FALSE, RuntimeMins |-> 0]

Fillable == {"actors", "directors", "genre", "poster", "year", "plot", "runtime"}

\* sheet.go:91-109: the variable needLookup after the loop
needLookup(headings, row) ==
  \E j \in 0..(Len(headings) - 1) :
    /\ headings[j + 1] \in Fillable
    /\ \/ j >= Len(row)
       \/ /\ j < Len(row)
          /\ row[j + 1].str
          /\ TrimSpace(row[j + 1].val) = ""

\* sheet.go:134-147: the loop that finds id.  found is FALSE when the loop
\* returns nil from the callback (a cell that is not a string); id is the
\* variable id after the loop otherwise.  parseIMDbID returns a value that
\* is not a URL of the IMDb as it is.
RECURSIVE idFrom(_, _, _, _)
idFrom(headings, row, j, id) ==
  IF j >= Len(headings) \/ j >= Len(row) THEN [found |-> TRUE, id |-> id]
  ELSE IF headings[j + 1] # "imdbid" THEN idFrom(headings, row, j + 1, id)
  ELSE IF ~row[j + 1].str THEN [found |-> FALSE, id |-> ""]
  ELSE idFrom(headings, row, j + 1, row[j + 1].val)

\* sheet.go:162-177: column j is passed over by the loop of writes.
SkipsCell(headings, row, j) ==
  \/ j = 0
  \/ j < Len(row) /\ ~row[j + 1].str
  \/ j < Len(row) /\ row[j + 1].str /\ TrimSpace(row[j + 1].val) # ""

\* sheet.go:181-230: the switch calls ssSet for the heading.
SetsCell(heading, info) ==
  \/ heading \in {"actors", "directors", "genre", "poster", "plot"}
  \/ heading = "year" /\ info.date3
  \/ heading = "runtime" /\ info.RuntimeMins > 0

InitUpd ==
  /\ uPc = "start"
  /\ uHead = <<>>
  /\ uRow = <<>>
  /\ uInfo = NoInfo
  /\ uJ = 0
  /\ uLooked = "none"
  /\ uWrites = {}
  /\ uRes = ""

\* handleSheet calls the callback for a row (sheet.go:90-147), up to the
\* lookup.  html is what os.Open does with htmldir/name.html: "absent"
\* (no htmldir, or no such file), "file", "err" (any other error).
UpdCall ==
  /\ uPc = "start"
  /\ \E headings \in UpdHeadings, row \in UpdRows,
        html \in {"absent", "file", "err"} :
       /\ uHead' = headings
       /\ uRow' = row
       /\ IF ~needLookup(headings, row)
          THEN uPc' = "returned" /\ uRes' = "nil"
          ELSE IF html = "err"
          THEN uPc' = "returned" /\ uRes' = "err"
          ELSE IF html = "file"
          THEN uPc' = "file" /\ uRes' = ""
          ELSE LET r == idFrom(headings, row, 0, "")
               IN  IF ~r.found \/ r.id = ""
                   THEN uPc' = "returned" /\ uRes' = "nil"
                   ELSE uPc' = "page" /\ uRes' = ""
  /\ UNCHANGED <<uInfo, uJ, uLooked, uWrites>>
  /\ UNCHANGED otherThanUpd

\* parseIMDbHTML(f) (sheet.go:127-130)
UpdParseHTML ==
  /\ uPc = "file"
  /\ uLooked' = "file"
  /\ \/ \E info \in UpdInfos :
          uInfo' = info /\ uPc' = "write" /\ uJ' = 0 /\ UNCHANGED uRes
     \/ uPc' = "returned" /\ uRes' = "err" /\ UNCHANGED <<uInfo, uJ>>
  /\ UNCHANGED <<uHead, uRow, uWrites>>
  /\ UNCHANGED otherThanUpd

\* parseIMDbPage(cl, id) (sheet.go:151-154)
UpdParsePage ==
  /\ uPc = "page"
  /\ uLooked' = "page"
  /\ \/ \E info \in UpdInfos :
          uInfo' = info /\ uPc' = "write" /\ uJ' = 0 /\ UNCHANGED uRes
     \/ uPc' = "returned" /\ uRes' = "err" /\ UNCHANGED <<uInfo, uJ>>
  /\ UNCHANGED <<uHead, uRow, uWrites>>
  /\ UNCHANGED otherThanUpd

\* One iteration of the loop of writes (sheet.go:157-231) without ssSet.
UpdPass ==
  /\ uPc = "write"
  /\ uJ < Len(uHead)
  /\ \/ SkipsCell(uHead, uRow, uJ)
     \/ ~SetsCell(uHead[uJ + 1], uInfo)
  /\ uJ' = uJ + 1
  /\ UNCHANGED <<uPc, uHead, uRow, uInfo, uLooked, uWrites, uRes>>
  /\ UNCHANGED otherThanUpd

\* One iteration of the loop of writes that calls ssSet(cell, newval)
\* (sheet.go:76-88): ok is whether the update of the cell succeeded.
UpdSet(ok) ==
  /\ uPc = "write"
  /\ uJ < Len(uHead)
  /\ ~SkipsCell(uHead, uRow, uJ)
  /\ SetsCell(uHead[uJ + 1], uInfo)
  /\ IF ok
     THEN /\ uWrites' = uWrites \cup {uJ}
          /\ uJ' = uJ + 1
          /\ UNCHANGED <<uPc, uRes>>
     ELSE /\ uPc' = "returned"
          /\ uRes' = "err"
          /\ UNCHANGED <<uJ, uWrites>>
  /\ UNCHANGED <<uHead, uRow, uInfo, uLooked>>
  /\ UNCHANGED otherThanUpd

\* The loop of writes is over: return nil (sheet.go:233).
UpdDone ==
  /\ uPc = "write"
  /\ uJ >= Len(uHead)
  /\ uPc' = "returned"
  /\ uRes' = "nil"
  /\ UNCHANGED <<uHead, uRow, uInfo, uJ, uLooked, uWrites>>
  /\ UNCHANGED otherThanUpd

\* handleSheet goes on to the next row.
UpdNextRow ==
  /\ uPc = "returned"
  /\ uPc' = "start"
  /\ uHead' = <<>>
  /\ uRow' = <<>>
  /\ uInfo' = NoInfo
  /\ uJ' = 0
  /\ uLooked' = "none"
  /\ uWrites' = {}
  /\ uRes' = ""
  /\ UNCHANGED otherThanUpd

NextUpd ==
  \/ UpdCall
  \/ UpdParseHTML
  \/ UpdParsePage
  \/ UpdPass
  \/ \E ok \in BOOLEAN : UpdSet(ok)
  \/ UpdDone
  \/ UpdNextRow

(***************************************************************************)
(* Part 9 (SpecAuth): the Basic-auth gate of server.handle and             *)
(* server.handleThumb (src/handle.go:25-32, 105-112).                      *)
(***************************************************************************)

otherThanAuth ==
  <<earlierVars, sortVars, updVars, thumbVars, readerVars, logVars>>

\* The values of the flags -username and -password (main.go:72-73): not
\* given (""), or given.
AuthConfigs == [username : {"", "kodi"}, password : {"", "secret"}]

\* The kinds of request: a directory listing, a media object, a .nfo
\* document, the infomap, a thumbnail (the only kind that the mux gives to
\* handleThumb, main.go:191-192).
AuthKinds == {"dir", "media", "nfo", "infomap", "thumb"}

\* What req.BasicAuth() returns: ok is FALSE when the request has no
\* well-formed Authorization header for the Basic scheme.
AuthRequests ==
  {[kind |-> k, ok |-> FALSE, username |-> "", password |-> ""] :
     k \in AuthKinds}
  \cup [kind : AuthKinds, ok : {TRUE}, username : {"", "kodi", "eve"},
        password : {"", "secret", "guess"}]

NoAuthRequest == [kind |-> "", ok |-> FALSE, username |-> "", password |-> ""]

\* handle.go:26-32 and 106-112: the request is refused.
Unauthorized(cfg, req) ==
  /\ cfg.username # "" /\ cfg.password # ""
  /\ \/ ~req.ok
     \/ req.username # cfg.username
     \/ req.password # cfg.password

InitAuth ==
  /\ aPc = "start"
  /\ aCfg = [username |-> "", password |-> ""]
  /\ aReq = NoAuthRequest
  /\ aCode = 0
  /\ aAccess = FALSE

\* maincmd.serve builds the server from the flags (main.go:84-99).
AuthServe(cfg) ==
  /\ aPc = "start"
  /\ aPc' = "run"
  /\ aCfg' = cfg
  /\ UNCHANGED <<aReq, aCode, aAccess>>
  /\ UNCHANGED otherThanAuth

\* A request enters handle or handleThumb: the gate.
AuthGate(req) ==
  /\ aPc = "run"
  /\ aReq' = req
  /\ IF Unauthorized(aCfg, req)
     THEN aPc' = "answered" /\ aCode' = 401
     ELSE aPc' = "admitted" /\ aCode' = 0
  /\ UNCHANGED <<aCfg, aAccess>>
  /\ UNCHANGED otherThanAuth

\* The rest of the handler: it reads or refreshes a cache (ensureObjNames
\* in handleDir and handleThumb, ensureInfoMap for infomap, parsePath and
\* handleNFO) or opens the object in the bucket, and answers.
AuthProceed ==
  /\ aPc = "admitted"
  /\ aPc' = "answered"
  /\ aAccess' = TRUE
  /\ \E code \in {200, 404, 500} : aCode' = code
  /\ UNCHANGED <<aCfg, aReq>>
  /\ UNCHANGED otherThanAuth

\* The response is sent; the server waits for the next request.
AuthAnswered ==
  /\ aPc = "answered"
  /\ aPc' = "run"
  /\ aReq' = NoAuthRequest
  /\ aCode' = 0
  /\ aAccess' = FALSE
  /\ UNCHANGED aCfg
  /\ UNCHANGED otherThanAuth

NextAuth ==
  \/ \E cfg \in AuthConfigs : AuthServe(cfg)
  \/ \E req \in AuthRequests : AuthGate(req)
  \/ AuthProceed
  \/ AuthAnswered

(***************************************************************************)
(* Part 10 (SpecThumb): the image references of the Metadata Table         *)
(* (src/handle.go:380-391) and server.handleThumb (src/handle.go:114-167), *)
(* over names and URLs that are strings.                                   *)
(***************************************************************************)

otherThanThumb ==
  <<earlierVars, sortVars, updVars, authVars, readerVars, logVars>>

\* The image URLs of the spreadsheet.
ThumbURLs == {"http://img/a.jpg", "http://img/b.png"}

\* The image cells of a row (banner, clearart, ..., poster), in the order
\* of the columns, the empty ones left out (handle.go:358-360).
ThumbCells == SeqsUpTo(ThumbURLs, MaxThumbs)

\* The spreadsheets of the model: the image cells of the rows of some of
\* the names.
ThumbSheets == UNION {[S -> ThumbCells] : S \in SUBSET {"Alien", "Brazil"}}

\* handle.go:380-391: info.Thumbs after the cells of the row of rootName;
\* the first image reference is rewritten, the later ones are kept.
RECURSIVE Thumbs(_, _)
Thumbs(rootName, cells) ==
  IF cells = <<>> THEN <<>>
  ELSE LET before == Thumbs(rootName, SubSeq(cells, 1, Len(cells) - 1))
           origVal == cells[Len(cells)]
           val == IF Len(before) = 0
                  THEN "/thumbs/" \o rootName \o Ext(origVal)
                  ELSE origVal
       IN  Append(before, [Val |-> val, origVal |-> origVal])

\* strings.Trim(s, "/")
RECURSIVE TrimSlashes(_)
TrimSlashes(s) ==
  IF Len(s) > 0 /\ HasPrefix(s, "/") THEN TrimSlashes(SubSeq(s, 2, Len(s)))
  ELSE IF Len(s) > 0 /\ HasSuffix(s, "/")
       THEN TrimSlashes(SubSeq(s, 1, Len(s) - 1))
       ELSE s

\* slices.Filter(entry.Thumbs, func(th thumb) bool { return th.Val == path })
RECURSIVE ThumbMatches(_, _)
ThumbMatches(thumbs, path) ==
  IF thumbs = <<>> THEN <<>>
  ELSE (IF Head(thumbs).Val = path THEN <<Head(thumbs)>> ELSE <<>>)
       \o ThumbMatches(Tail(thumbs), path)

\* s.handleThumb after the authentication and the two ensure calls
\* (handle.go:114-166), for the URL path urlPath.
handleThumb(urlPath, objs, table) ==
  LET path == TrimPrefix(TrimSlashes(urlPath), "thumbs/")
      root == TrimSuffix(path, Ext(path))
  IN  IF path \in objs
      THEN [path |-> urlPath, resp |-> "bucket", location |-> ""]
      ELSE IF root \notin DOMAIN table
      THEN [path |-> urlPath, resp |-> "notfound", location |-> ""]
      ELSE LET matches == ThumbMatches(table[root], path)
           IN  IF Len(matches) = 0
               THEN [path |-> urlPath, resp |-> "notfound", location |-> ""]
               ELSE [path |-> urlPath, resp |-> "redirect",
                     location |-> matches[1].origVal]

\* The URL paths of the requests of the model.
ThumbPaths ==
  {"/thumbs/Alien.jpg", "/thumbs/Alien.png", "/thumbs/Brazil.jpg",
   "/thumbs/Brazil.png", "/thumbs/Casablanca.jpg"}

NoThumbOut == [path |-> "", resp |-> "", location |-> ""]

InitThumb ==
  /\ tPc = "start"
  /\ tTable = NoTable
  /\ tObjs = {}
  /\ tOut = NoThumbOut

\* The caches are loaded from the spreadsheet sheet and a bucket with the
\* objects objs (ensureInfoMap, ensureObjNames).
ThumbLoad(sheet, objs) ==
  /\ tPc = "start"
  /\ tPc' = "run"
  /\ tTable' = [r \in DOMAIN sheet |-> Thumbs(r, sheet[r])]
  /\ tObjs' = objs
  /\ UNCHANGED tOut
  /\ UNCHANGED otherThanThumb

\* A request for urlPath reaches handleThumb; fail is whether one of its
\* ensure calls returns an error (handle.go:118-124).
ThumbGet(urlPath, fail) ==
  /\ tPc = "run"
  /\ tOut' = IF fail
             THEN [path |-> urlPath, resp |-> "error", location |-> ""]
             ELSE handleThumb(urlPath, tObjs, tTable)
  /\ UNCHANGED <<tPc, tTable, tObjs>>
  /\ UNCHANGED otherThanThumb

NextThumb ==
  \/ \E sheet \in ThumbSheets, objs \in SUBSET {"Alien.jpg", "Alien.iso"} :
       ThumbLoad(sheet, objs)
  \/ \E urlPath \in ThumbPaths, fail \in BOOLEAN : ThumbGet(urlPath, fail)

(***************************************************************************)
(* Part 11 (SpecObj): objReader (src/objreader.go), a seekable reader of   *)
(* an object of the bucket.  The storage.Reader r.r is the set of the      *)
(* positions at which it is open: empty for nil, one position otherwise.   *)
(***************************************************************************)

otherThanObj ==
  <<earlierVars, sortVars, updVars, authVars, thumbVars, logVars>>

NoCall == [op |-> "none", n |-> 0, err |-> FALSE, opened |-> {}]

\* obj.NewRangeReader(ctx, offset, -1) of cloud.google.com/go/storage:
\* the position of the reader it returns.  A negative offset reads the
\* last -offset bytes of the object.
NewRangeReader(offset, size) ==
  IF offset >= 0 THEN offset
  ELSE IF size + offset >= 0 THEN size + offset ELSE 0

\* The position that Seek assigns to r.pos, as a set: empty for the default
\* case of the switch (objreader.go:42-51).  whence is io.SeekStart (0),
\* io.SeekCurrent (1), io.SeekEnd (2) or another value.
SeekTarget(offset, whence) ==
  CASE whence = 0 -> {offset}
    [] whence = 1 -> {oPos + offset}
    [] whence = 2 -> {oSize + offset}
    [] OTHER -> {}

InitObj ==
  /\ oPc = "start"
  /\ oR = {}
  /\ oPos = 0
  /\ oSize = 0
  /\ oNread = 0
  /\ oLast = NoCall

\* An objReader is made for an object of size bytes: pos and nread are
\* 0, r.r is nil.
ObjNew(size) ==
  /\ oPc = "start"
  /\ oPc' = "open"
  /\ oSize' = size
  /\ UNCHANGED <<oR, oPos, oNread, oLast>>
  /\ UNCHANGED otherThanObj

\* Read(dest) when NewRangeReader fails (objreader.go:20-25).
ObjReadOpenErr ==
  /\ oPc = "open"
  /\ oR = {} /\ oPos < oSize
  /\ oLast' = [op |-> "read", n |-> 0, err |-> TRUE, opened |-> {}]
  /\ UNCHANGED <<oPc, oR, oPos, oSize, oNread>>
  /\ UNCHANGED otherThanObj

\* Read(dest) with no reader at or past the end: io.EOF
\* (objreader.go:27-29).
ObjReadEOF ==
  /\ oPc = "open"
  /\ oR = {} /\ oPos >= oSize
  /\ oLast' = [op |-> "read", n |-> 0, err |-> TRUE, opened |-> {}]
  /\ UNCHANGED <<oPc, oR, oPos, oSize, oNread>>
  /\ UNCHANGED otherThanObj

\* Read(dest) with a reader, opened by the call when there was none
\* (objreader.go:20-33).  The reader returns n bytes, at most len(dest)
\* and at most what is left of the object, with or without an error.
ObjRead(len, n, err) ==
  /\ oPc = "open"
  /\ oR # {} \/ oPos < oSize
  /\ LET at == IF oR = {} THEN NewRangeReader(oPos, oSize)
               ELSE CHOOSE p \in oR : TRUE
     IN  /\ n <= len /\ n <= oSize - at
         /\ n = 0 => err
         /\ oNread + n <= MaxNread
         /\ oR' = {at + n}
         /\ oPos' = oPos + n
         /\ oNread' = oNread + n
         /\ oLast' = [op |-> "read", n |-> n, err |-> err,
                      opened |-> IF oR = {} THEN {at} ELSE {}]
  /\ UNCHANGED <<oPc, oSize>>
  /\ UNCHANGED otherThanObj

\* Seek(offset, whence) (objreader.go:36-54); closeErr is whether
\* r.r.Close() returns an error.
ObjSeek(offset, whence, closeErr) ==
  /\ oPc = "open"
  /\ closeErr => oR # {}
  /\ oR' = {}
  /\ LET target == SeekTarget(offset, whence)
     IN  IF closeErr \/ target = {}
         THEN /\ oLast' = [op |-> "seek", n |-> 0, err |-> TRUE,
                           opened |-> {}]
              /\ UNCHANGED oPos
         ELSE \E p \in target :
                /\ p >= 0 - MaxObjSize /\ p <= 2 * MaxObjSize
                /\ oPos' = p
                /\ oLast' = [op |-> "seek", n |-> p, err |-> FALSE,
                             opened |-> {}]
  /\ UNCHANGED <<oPc, oSize, oNread>>
  /\ UNCHANGED otherThanObj

\* Close() (objreader.go:56-63).
ObjClose(closeErr) ==
  /\ oPc = "open"
  /\ closeErr => oR # {}
  /\ oR' = {}
  /\ oLast' = [op |-> "close", n |-> 0, err |-> closeErr, opened |-> {}]
  /\ UNCHANGED <<oPc, oPos, oSize, oNread>>
  /\ UNCHANGED otherThanObj

NextObj ==
  \/ \E size \in 0..MaxObjSize : ObjNew(size)
  \/ ObjReadOpenErr
  \/ ObjReadEOF
  \/ \E len \in 1..MaxObjSize, n \in 0..MaxObjSize, err \in BOOLEAN :
       ObjRead(len, n, err)
  \/ \E offset \in (0 - MaxObjSize)..(MaxObjSize + 1), whence \in 0..3,
        closeErr \in BOOLEAN :
       ObjSeek(offset, whence, closeErr)
  \/ \E closeErr \in BOOLEAN : ObjClose(closeErr)

(***************************************************************************)
(* Part 12 (SpecLog): the progress-logging goroutine that server.handle    *)
(* starts for a media transfer in verbose mode (src/handle.go:75-95).      *)
(* Every transfer has its own context, timer and goroutine.                *)
(***************************************************************************)

otherThanLog ==
  <<earlierVars, sortVars, updVars, authVars, thumbVars, readerVars>>

Transfers == 1..MaxTransfers

InitLog ==
  /\ lVerbose = FALSE
  /\ lPc = [h \in Transfers |-> "start"]
  /\ lCtx = [h \in Transfers |-> FALSE]
  /\ lTask = [h \in Transfers |-> "none"]
  /\ lStarted = [h \in Transfers |-> 0]
  /\ lTimer = [h \in Transfers |-> "none"]
  /\ lNRead = [h \in Transfers |-> 0]
  /\ lFinal = [h \in Transfers |-> 0]
  /\ lProgress = [h \in Transfers |-> 0]

\* The server is started with -verbose (main.go:84-99).
LogVerbose ==
  /\ \A h \in Transfers : lPc[h] = "start"
  /\ ~lVerbose
  /\ lVerbose' = TRUE
  /\ UNCHANGED <<lPc, lCtx, lTask, lStarted, lTimer, lNRead, lFinal,
                 lProgress>>
  /\ UNCHANGED otherThanLog

\* handle has opened the object (handle.go:68-73).  In verbose mode it
\* derives a context and starts the goroutine, which makes its timer
\* (handle.go:75-84); then it calls http.ServeContent (handle.go:97-98).
LogServe(h) ==
  /\ lPc[h] = "start"
  /\ lPc' = [lPc EXCEPT ![h] = "serving"]
  /\ IF lVerbose
     THEN /\ lTask' = [lTask EXCEPT ![h] = "select"]
          /\ lStarted' = [lStarted EXCEPT ![h] = @ + 1]
          /\ lTimer' = [lTimer EXCEPT ![h] = "armed"]
     ELSE UNCHANGED <<lTask, lStarted, lTimer>>
  /\ UNCHANGED <<lVerbose, lCtx, lNRead, lFinal, lProgress>>
  /\ UNCHANGED otherThanLog

\* http.ServeContent reads a byte of the object.
LogCopy(h) ==
  /\ lPc[h] = "serving"
  /\ lNRead[h] < MaxBytes
  /\ lNRead' = [lNRead EXCEPT ![h] = @ + 1]
  /\ UNCHANGED <<lVerbose, lPc, lCtx, lTask, lStarted, lTimer, lFinal,
                 lProgress>>
  /\ UNCHANGED otherThanLog

\* http.ServeContent returns and handle returns: the deferred cancel and
\* r.Close run (handle.go:79, 73, 98-102).
LogReturn(h) ==
  /\ lPc[h] = "serving"
  /\ lPc' = [lPc EXCEPT ![h] = "returned"]
  /\ lCtx' = [lCtx EXCEPT ![h] = lVerbose]
  /\ UNCHANGED <<lVerbose, lTask, lStarted, lTimer, lNRead, lFinal,
                 lProgress>>
  /\ UNCHANGED otherThanLog

\* A minute after time.NewTimer the timer sends on t.C, once
\* (handle.go:84).
LogTimerFires(h) ==
  /\ lTimer[h] = "armed"
  /\ lTimer' = [lTimer EXCEPT ![h] = "fired"]
  /\ UNCHANGED <<lVerbose, lPc, lCtx, lTask, lStarted, lNRead, lFinal,
                 lProgress>>
  /\ UNCHANGED otherThanLog

\* The select of the goroutine, case <-t.C: log the progress and go round
\* the loop (handle.go:90-91).
LogProgress(h) ==
  /\ lTask[h] = "select"
  /\ lTimer[h] = "fired"
  /\ lTimer' = [lTimer EXCEPT ![h] = "drained"]
  /\ lProgress' = [lProgress EXCEPT ![h] = @ + 1]
  /\ UNCHANGED <<lVerbose, lPc, lCtx, lTask, lStarted, lNRead, lFinal>>
  /\ UNCHANGED otherThanLog

\* The select of the goroutine, case <-ctx.Done(): log the final count;
\* the break leaves the select, not the for loop, so the goroutine is at
\* the select again (handle.go:85-89, 93).
LogFinal(h) ==
  /\ lTask[h] = "select"
  /\ lCtx[h]
  /\ lFinal[h] < MaxLogs
  /\ lFinal' = [lFinal EXCEPT ![h] = @ + 1]
  /\ UNCHANGED <<lVerbose, lPc, lCtx, lTask, lStarted, lTimer, lNRead,
                 lProgress>>
  /\ UNCHANGED otherThanLog

NextLog ==
  \/ LogVerbose
  \/ \E h \in Transfers : LogServe(h)
  \/ \E h \in Transfers : LogCopy(h)
  \/ \E h \in Transfers : LogReturn(h)
  \/ \E h \in Transfers : LogTimerFires(h)
  \/ \E h \in Transfers : LogProgress(h)
  \/ \E h \in Transfers : LogFinal(h)

Init ==
  /\ InitCache /\ InitCert /\ InitRow /\ InitPath /\ InitCtx /\ InitCell
  /\ InitSort /\ InitUpd /\ InitAuth /\ InitThumb /\ InitObj /\ InitLog

SpecSort == Init /\ [][NextSort]_vars

SpecUpd == Init /\ [][NextUpd]_vars

SpecAuth == Init /\ [][NextAuth]_vars

SpecThumb == Init /\ [][NextThumb]_vars

SpecObj == Init /\ [][NextObj]_vars

SpecLog == Init /\ [][NextLog]_vars

Next ==
  \/ \E h \in Handlers, k \in {"root", "infomap", "thumb", "other"} :
       Request(h, k)
  \/ \E h \in Handlers : EnsureObjNamesFresh(h)
  \/ \E h \in Handlers, listing \in SUBSET Names :
       EnsureObjNamesBegin(h, listing)
  \/ \E h \in Handlers : IterNext(h)
  \/ \E h \in Handlers : IterDone(h)
  \/ \E h \in Handlers : IterErr(h)
  \/ \E h \in Handlers : EnsureInfoMapNoSheet(h)
  \/ \E h \in Handlers : EnsureInfoMapFresh(h)
  \/ \E h \in Handlers : EnsureInfoMapBegin(h)
  \/ \E h \in Handlers : SheetGetErr(h)
  \/ \E h \in Handlers, t \in Sheets : SheetTooShort(h, t)
  \/ \E h \in Handlers, t \in Sheets : SheetGetOK(h, t)
  \/ \E h \in Handlers : SheetRow(h)
  \/ \E h \in Handlers : SheetDone(h)
  \/ \E h \in Handlers, out \in {"dir", "nfo", "media"} : ParsePath(h, out)
  \/ \E h \in Handlers : Lookup(h)
  \/ \E h \in Handlers, p \in Names : ThumbFromBucket(h, p)
  \/ \E h \in Handlers, p \in Names : ThumbRedirect(h, p)
  \/ \E h \in Handlers, p \in Names : ThumbNotFound(h, p)
  \/ \E h \in Handlers : Respond(h)
  \/ \E h \in Handlers : Stream(h)
  \/ \E t \in Instants : Tick(t)

Spec == Init /\ [][Next]_vars

NextCert ==
  \/ SupPlain
  \/ SupLaunch
  \/ SupLaunchFail
  \/ SupFirstDone
  \/ SupFirstCert
  \/ SupFirstClosed
  \/ SupCall
  \/ SupSelectDone
  \/ SupSelectErr
  \/ SupSelectCert
  \/ SupSelectClosed
  \/ SupAwait
  \/ \E e \in Epochs : LnsBind(e)
  \/ \E e \in Epochs : LnsFail(e)
  \/ \E e \in Epochs : TaskShutdownBegin(e)
  \/ \E e \in Epochs : TaskSelectErr(e)
  \/ \E e \in Epochs : TaskShutdownOK(e)
  \/ \E e \in Epochs : TaskShutdownErr(e)
  \/ \E e \in Epochs : TaskAwaitLns(e)
  \/ Signal
  \/ CertProduce
  \/ CertClose
  \/ \E e \in Epochs : ReqStart(e)
  \/ \E e \in Epochs : ReqEnd(e)

SpecCert == Init /\ [][NextCert]_vars

\* The steps of serveHelper and serveHelper2 once the certificate command
\* runs: each is a receive or a select that some ready case ends.
SupStep ==
  \/ SupFirstDone \/ SupFirstCert \/ SupFirstClosed \/ SupCall
  \/ SupSelectDone \/ SupSelectErr \/ SupSelectCert \/ SupSelectClosed
  \/ SupAwait

\* The steps of serveWithCert for epoch e.
TaskStep(e) ==
  \/ TaskShutdownBegin(e) \/ TaskSelectErr(e) \/ TaskShutdownOK(e)
  \/ TaskShutdownErr(e) \/ TaskAwaitLns(e)

\* SpecCert with the scheduling of Go: a goroutine that can take a step
\* takes one (serveHelper, every listener task), and every request in
\* flight is answered in the end.
SpecCertFair ==
  /\ SpecCert
  /\ WF_vars(SupStep)
  /\ \A e \in Epochs : WF_vars(TaskStep(e)) /\ WF_vars(ReqEnd(e))

NextRow ==
  \/ \E k \in 1..MaxSheetRows : RefreshBegin(k)
  \/ RowBegin
  \/ RowCell
  \/ RowStore
  \/ RowReturn
  \/ RefreshDone

SpecRow == Init /\ [][NextRow]_vars

NextPath ==
  \/ \E t \in Tables, o \in Buckets, sd \in BOOLEAN : Configure(t, o, sd)
  \/ \E path \in Paths, mt \in Modes : Resolve(path, mt)
  \/ \E subdir \in Labels, mo \in {"load", "fail"}, mt \in Modes :
       ListEntries(subdir, mo, mt)

SpecPath == Init /\ [][NextPath]_vars

NextHandle ==
  \/ \E t \in Tables, o \in Buckets, sd \in BOOLEAN : Configure(t, o, sd)
  \/ \E path \in Paths, m1 \in Modes, mo \in {"load", "fail"}, m2 \in Modes :
       Handle(path, m1, mo, m2)

SpecHandle == Init /\ [][NextHandle]_vars

NextPrefix ==
  \/ \E rootName \in Roots : CallPrefix(rootName)
  \/ Restart

SpecPrefix == Init /\ [][NextPrefix]_vars

NextCtx ==
  \/ \E l \in Listings : ObjsCall(l)
  \/ ObjsNext
  \/ ObjsFetch
  \/ ObjsDone
  \/ SheetCall
  \/ \E r \in {"nil", "err"} : SheetReturn(r)
  \/ Cancel

SpecCtx == Init /\ [][NextCtx]_vars

NextCell ==
  \E row \in 0..MaxCellRow, col \in 0..MaxCellCol : CellNameCall(row, col)

SpecCell == Init /\ [][NextCell]_vars

(***************************************************************************)
(* Claims about the caches, checked under Spec.                            *)
(***************************************************************************)

\* A timestamp t lies within the staleness window: it is at most
\* staleTime old.
WithinWindow(t) == now - t <= staleTime

\* Handler h reads the caches in this step (it takes the read lock and
\* looks them up).
ReadStep(h) == pc[h] = "rlock" /\ pc'[h] # "rlock"

\* A rebuild by handler h is under way.
Rebuilding(h) == pc[h] \in {"eon_iter", "eim_get", "eim_rows"}

\* C1: when the enumeration fails during ensureObjNames, the Object Name
\* Set after the failed call equals the set before the call.
C1_FailedEnumKeepsSet ==
  [][(ev'.op = "eon" /\ ev'.out = "failed") => objNames' = snapObj]_vars

\* C2: when a Metadata Table refresh fails, ensureInfoMap leaves the table
\* equal to the previous snapshot, and the next call retries the refresh.
C2_FailedRefreshKeepsTable ==
  [][(ev'.op = "eim" /\ ev'.out = "failed")
       => (infoMap' = snapInfo /\ NeedsInfo')]_vars

\* C3: every cache value that a handler reads under the read lock is the
\* complete result of a successful refresh (the latest one: a later rebuild
\* replaces the value when it begins): no handler reads a set or a table
\* that a rebuild left unfinished.
C3_ReadsSeeWholeCaches ==
  [][\A h \in Handlers :
       ReadStep(h) =>
         /\ route[h] \in {"dir", "thumb"} => objNames = goodObj
         /\ (route[h] # "thumb" /\ sheetID # "") => infoMap = goodInfo]_vars

\* C4 as stated: once ensureObjNames has succeeded, no enumeration is
\* started while the timestamp of that success is within the staleness
\* window, whatever the enumeration returned.
C4_NoEnumWithinWindow ==
  (okEver /\ WithinWindow(objNamesTime)) => enumSinceOK = 0

\* C4 as amended: once ensureObjNames has succeeded with at least one
\* name, no enumeration is started while the timestamp of that success is
\* within the staleness window.
C4_NoEnumWithinWindowNonEmpty ==
  (okEver /\ okNonEmpty /\ WithinWindow(objNamesTime)) => enumSinceOK = 0

\* A later call, made at the last instant of the window of a non-empty
\* success, returned without enumerating.
C4_Witness ==
  /\ okEver /\ okNonEmpty
  /\ ev.op = "eon" /\ ev.out = "fresh"
  /\ now - objNamesTime = staleTime

C6_StampOnlyOnSuccess ==
  [][/\ objNamesTime' # objNamesTime
          => (ev'.op = "eon" /\ ev'.out = "refreshed")
     /\ infoMapTime' # infoMapTime
          => (ev'.op = "eim" /\ ev'.out = "refreshed")]_vars

\* A refresh of the Object Name Set failed after an earlier one had
\* succeeded, and the timestamp is still the one of the success.
C6_Witness ==
  /\ ev.op = "eon" /\ ev.out = "failed"
  /\ okEver /\ objNamesTime # ZeroTime /\ objNamesTime < now

\* C7: the caches and their timestamps change only in steps of a handler
\* that holds the write lock, with no reader inside; a handler holds the
\* write lock for the whole of its rebuild and the read lock while it
\* answers from the caches; and no handler reads while a rebuild is
\* under way.
C7_LockInv ==
  /\ \A h \in Handlers : Rebuilding(h) <=> writer = h
  /\ \A h \in Handlers : pc[h] \in {"respond", "serve_obj"} <=> h \in readers
  /\ writer # None => readers = {}

C7_LockDiscipline ==
  /\ []C7_LockInv
  /\ [][/\ <<objNames, objNamesTime, infoMap, infoMapTime>>'
             # <<objNames, objNamesTime, infoMap, infoMapTime>>
             => /\ writer # None \/ writer' # None
                /\ readers = {} /\ readers' = {}
        /\ \A h \in Handlers :
             ReadStep(h) => \A g \in Handlers : ~Rebuilding(g)]_vars

\* A handler waits to read while the other is in the middle of an
\* enumeration.
C7_Witness ==
  \E h, g \in Handlers :
    /\ pc[h] = "eon_iter" /\ objNames # {} /\ iter # <<>>
    /\ pc[g] = "rlock"

\* C8: no handler holds the read lock while it reads an object of the
\* bucket or writes its response.
C8_NoLockWhileResponding ==
  \A h \in Handlers : pc[h] \in {"respond", "serve_obj"} => h \notin readers

(***************************************************************************)
(* Claims about the certificate rotation supervisor, checked under         *)
(* SpecCert.                                                               *)
(***************************************************************************)

\* The listener of epoch e is bound and accepting.
Live(e) == lns[e] = "bound"

\* The listener task of epoch e is running.
TaskRunning(e) == task[e] \notin {"none", "done"}

\* The supervisor serves certificates and has met none of the events that
\* end it: a listener has been bound, serveHelper has not returned, the
\* context is not cancelled, the certificate stream is open, no listener
\* has failed and no task has returned an error.
Serving ==
  /\ everBound
  /\ supPc \in {"loop", "select", "wait_errCh"}
  /\ ~outerDone
  /\ ~chClosed
  /\ \A e \in Epochs : lns[e] # "failed" /\ errCh[e] # "err"

C10_AtMostOneLive ==
  /\ Cardinality({e \in Epochs : TaskRunning(e)}) <= 1
  /\ Cardinality({e \in Epochs : lns[e] \in {"starting", "bound"}}) <= 1

\* The listener task of the second certificate is running, and its
\* listener bound, after the task of the first has shut down and returned.
C10_Witness ==
  /\ task[1] = "done" /\ errCh[1] = "nil"
  /\ TaskRunning(2) /\ Live(2)

\* C11: when a new certificate arrives while the supervisor serves, the
\* supervisor cancels the context of the running epoch and no other (the
\* outer context stays as it is); the listener of a task that shuts down
\* accepts no more; Shutdown returns only when no request of the listener
\* is in flight any more; and the supervisor goes on to serve the new
\* certificate only when the task of the old one has returned, with no
\* request of the old listener left in flight.
C11_RotationDrains ==
  [][/\ (supPc = "select" /\ supPc' = "wait_errCh")
          => /\ outerDone' = outerDone
             /\ cancelled' = [cancelled EXCEPT ![cert] = TRUE]
     /\ \A e \in Epochs :
          (task[e] = "select" /\ task'[e] = "shutdown") => ~Live(e)'
     /\ \A e \in Epochs :
          (task[e] = "shutdown" /\ task'[e] = "wait_lns") => inflight[e] = 0
     /\ (supPc = "wait_errCh" /\ supPc' = "loop")
          => /\ task[cert] = "done"
             /\ inflight[cert] = 0
             /\ ~Live(cert)
             /\ cert' = newCert]_vars

\* The second certificate has arrived and the task of the first shuts
\* down, with a request of its listener still in flight; the outer context
\* is not cancelled.
C11_Witness ==
  /\ supPc = "wait_errCh" /\ newCert = 2 /\ ~outerDone
  /\ task[1] = "shutdown" /\ inflight[1] > 0

\* C12: a listener stop that the rotation itself caused surfaces no error.
\* The task whose listener was closed by Shutdown reports nil (serveWithCert
\* turns ErrServerClosed into nil, so it reports nothing rather than
\* Canceled), and when the supervisor, after its inner cancel and with the
\* outer context not cancelled, receives that result, it returns no error:
\* it goes on to serve the new certificate.
C12_RotationStopSwallowed ==
  [][/\ \A e \in Epochs \ {0} :
          (task[e] = "wait_lns" /\ task'[e] = "done" /\ lns[e] = "closed")
            => errCh'[e] = "nil"
     /\ (/\ supPc = "wait_errCh" /\ supPc' # "wait_errCh"
         /\ errCh[cert] = "nil" /\ ~outerDone)
          => (supPc' = "loop" /\ cert' = newCert /\ supErr' = None)]_vars

\* The transition from the first certificate to the second is complete and
\* the supervisor carries on with the second, no error returned.
C12_Witness ==
  /\ supPc = "loop" /\ cert = 2 /\ supErr = None
  /\ errCh[1] = "nil" /\ ~outerDone

\* C13: when the outer context is cancelled while the supervisor serves
\* (the listener of its certificate is bound, no listener has failed, no
\* task has returned an error, the certificate stream is open and offers
\* nothing), serveHelper returns a nil error.
C13_CancelReturnsNil ==
  [][(/\ supPc = "select" /\ outerDone /\ Live(cert)
      /\ supPc' \in {"returned", "panicked"}
      /\ ~chClosed /\ certCh = 0
      /\ \A e \in Epochs : lns[e] # "failed" /\ errCh[e] # "err")
       => (supPc' = "returned" /\ supErr' = "nil")]_vars

\* C14: when the outer context is cancelled while the supervisor still
\* waits for the first certificate (the stream is open and offers nothing),
\* serveHelper returns a nil error and no listener task has been started.
C14_CancelBeforeFirstCertIsClean ==
  [][(/\ supPc = "await_first" /\ supPc' # "await_first"
      /\ outerDone /\ certCh = 0 /\ ~chClosed)
       => /\ supPc' = "returned" /\ supErr' = "nil"
          /\ \A e \in Epochs : task'[e] = "none"]_vars

\* C15: the closure of the certificate stream ends the supervisor with an
\* error.  With the outer context not cancelled: if the stream is closed
\* before it gave a certificate, serveHelper returns the error "cert
\* command exited before producing a certificate" and no listener task has
\* been started; if it is closed while the supervisor serves, serveHelper
\* returns an error ("cert command exited", or the error of the listener
\* task when that is ready too); and once serveHelper has returned, no
\* listener task is started any more.
C15_StreamClosureIsFatal ==
  [][/\ (/\ supPc = "await_first" /\ supPc' # "await_first"
         /\ chClosed /\ certCh = 0 /\ ~outerDone)
          => /\ supPc' = "returned" /\ supErr' = "nocert"
             /\ \A e \in Epochs : task'[e] = "none"
     /\ (/\ supPc = "select" /\ supPc' # "select"
         /\ chClosed /\ certCh = 0 /\ ~outerDone)
          => /\ supPc' = "returned"
             /\ errCh[cert] = None => supErr' = "exited"
             /\ supErr' \in {"exited", "serving"}
     /\ supPc \in {"returned", "panicked"}
          => /\ supPc' = supPc
             /\ \A e \in Epochs : task[e] = "none" => task'[e] = "none"]_vars

\* The stream was closed while the supervisor served, and serveHelper has
\* returned the error for it.
C15_Witness ==
  supPc = "returned" /\ supErr = "exited" /\ everBound /\ ~outerDone

\* C16: when the listener ends on its own with an error while the
\* supervisor serves, the error is fatal: the supervisor, receiving the
\* error of the task (in its select, or after the cancel for a new
\* certificate), returns it from serveHelper; and from the moment a
\* listener has failed no listener task is started any more.
C16_ListenerErrorIsFatal ==
  [][/\ (/\ supPc = "select" /\ supPc' \notin {"select", "wait_errCh"}
         /\ errCh[cert] = "err"
         /\ ~outerDone /\ ~(certCh = 0 /\ chClosed))
          => (supPc' = "returned" /\ supErr' = "serving")
     /\ (/\ supPc = "wait_errCh" /\ supPc' # "wait_errCh"
         /\ errCh[cert] = "err")
          => (supPc' = "returned" /\ supErr' = "serving")
     /\ (\E e \in Epochs : lns[e] = "failed")
          => \A f \in Epochs : task[f] = "none" => task'[f] = "none"]_vars

\* The listener of the first certificate failed while the supervisor
\* served, and serveHelper has returned the error.
C16_Witness ==
  /\ supPc = "returned" /\ supErr = "serving"
  /\ lns[1] = "failed" /\ task[1] = "done" /\ ~outerDone /\ ~chClosed

\* C17: when the outer context is cancelled while the supervisor serves
\* (the listener of its certificate is bound), serveHelper returns only
\* after the shutdown of the listener has finished: in the step in which
\* it returns, no listener task is running, no listener is bound and no
\* request is in flight any more.
C17_ReturnsAfterShutdown ==
  [][(/\ supPc = "select" /\ outerDone /\ Live(cert)
      /\ supPc' = "returned")
       => \A e \in Epochs :
            ~TaskRunning(e)' /\ ~Live(e)' /\ inflight'[e] = 0]_vars

C19_NoSheetInv ==
  sheetID = ""
    => /\ infoMap = {} /\ infoMapTime = ZeroTime
       /\ \A h \in Handlers : pc[h] \notin {"eim_get", "eim_rows"}

C19_NoSheetIsNoOp ==
  /\ []C19_NoSheetInv
  /\ [][(sheetID = "" /\ ev'.op = "eim")
          => /\ ev'.out = "noop"
             /\ pc'[ev'.h] = "rlock"
             /\ infoMap' = infoMap /\ infoMapTime' = infoMapTime]_vars

\* A call of ensureInfoMap has returned at once for want of a spreadsheet.
C19_Witness == sheetID = "" /\ ev.op = "eim" /\ ev.out = "noop"

\* The record the callback stores for a row with cells c: each field from
\* its own cell alone.
C20_FieldsFromOwnCells(c, i) ==
  /\ i.Title = IF c.title.kind = "str" THEN c.title.val ELSE "root"
  /\ i.Year = IF c.year.kind = "str" /\ AtoiOK(c.year.val)
              THEN Atoi(c.year.val) ELSE 0
  /\ i.Runtime = IF c.runtime.kind = "str" /\ AtoiOK(c.runtime.val)
                 THEN Atoi(c.runtime.val) ELSE 0
  /\ i.Trailer = IF c.trailer.kind = "str" /\ TrailerId(c.trailer.val) # ""
                 THEN TrailerURL(TrailerId(c.trailer.val)) ELSE <<>>

\* C20: a cell that fails to parse (a year or a runtime that is no number,
\* a trailer that is no URL or no YouTube link) leaves only its own field at
\* the zero value: once the record of a row is stored, every field of it
\* holds what its own cell gives, whatever the other cells of the row hold
\* and whatever the order of the columns, and it is stored under the name
\* of the row; every row passed to the callback stays in the table; and
\* the refresh returns nil with every row of the sheet in the table.
C20_BadCellUnsetsOnlyItsField ==
  /\ []((rPc = "stored" =>
           /\ C20_FieldsFromOwnCells(rRow.cells, rInfo)
           /\ rName \in rTable) /\
        (rPc \in {"stored", "idle"} => rTable = rGiven) /\
        (rPc = "done" => rResult = "nil" /\ rTable = rGiven))
  /\ [][(rPc = "stored" => rPc' = "idle") /\
        (rPc = "idle" => rPc' \in {"cells", "done"})]_vars

\* C20 witness: the record of the second and last row of a sheet is stored;
\* the year of that row, read before its runtime and trailer, was no
\* number, and the record has the zero year and the parsed title, runtime
\* and trailer.
C20_Witness ==
  /\ rPc = "stored"
  /\ rLeft = 0
  /\ rTable = Names
  /\ rRow.head = <<"title", "year", "runtime", "trailer">>
  /\ rRow.cells.year = [kind |-> "str", val |-> <<"x">>]
  /\ rRow.cells.runtime = [kind |-> "str", val |-> <<"1", "1">>]
  /\ rInfo.Title = "T"
  /\ rInfo.Year = 0
  /\ rInfo.Runtime = 11
  /\ rInfo.Trailer = TrailerURL("id")

(***************************************************************************)
(* Claims about the paths, checked under SpecPath, SpecHandle and          *)
(* SpecPrefix.                                                             *)
(***************************************************************************)

\* C21: parsePath never rejects a path.  The only error it returns is the
\* error of ensureInfoMap; and when the path matches no subdirectory label
\* and no prefixed root name of the table it scanned, it returns the empty
\* subdirectory and the path itself.
C21_ResolveNeverRejects ==
  pOut.op = "resolve" =>
    /\ pOut.resp \in {"nil", "ensureInfoMap"}
    /\ (pOut.resp = "ensureInfoMap" => pTable = NoTable)
    /\ (pOut.resp = "nil" /\ Hits(pTable, pOut.path) = {} =>
          pOut.subdir = "" /\ pOut.key = pOut.path)

\* C21 witness: over a loaded table with a record, parsePath has returned
\* the path a.iso, which matches nothing, as it came.
C21_Witness ==
  /\ pOut.op = "resolve"
  /\ pOut.path = "a.iso"
  /\ pOut.resp = "nil"
  /\ DOMAIN pTable # {}
  /\ Hits(pTable, pOut.path) = {}
  /\ pOut.subdir = ""
  /\ pOut.key = "a.iso"

\* C22: when parsePath leaves the path of a request unresolved, handle
\* serves the object of the bucket that is named exactly by the path (or
\* fails to open exactly that object), whatever the length of the path.
C22_UnresolvedServedLiterally ==
  (/\ pOut.op = "handle"
   /\ pOut.path \notin {"", "infomap"}
   /\ pOut.resp # "error"
   /\ ~pOut.hit)
  => pOut.resp \in {"object", "noobject"} /\ pOut.key = pOut.path

\* C23: over unchanged upstream data, parsePath of a path that handleDir
\* lists for an object returns the pair that its first call returned,
\* whatever calls of handleDir and refreshes lie in between.
C23_ResolveStable ==
  [][(/\ pOut'.op = "resolve"
      /\ pOut'.resp = "nil"
      /\ pFirst.op = "resolve"
      /\ pOut'.path = pFirst.path)
     => pOut'.subdir = pFirst.subdir /\ pOut'.key = pFirst.key]_vars

\* C24: no path matches the records of a table in two ways: the scan of
\* parsePath has at most one outcome, so the order of the scan does not
\* matter.
C24_NoTies ==
  pOut.op = "resolve" /\ pOut.resp = "nil" =>
    Cardinality(Hits(pTable, pOut.path)) <= 1

\* The object belongs to the grouping subdir on the table t.
C25_InGrouping(objName, subdir, t) ==
  LET rootName == TrimSuffix(objName, Ext(objName))
  IN  IF rootName \in DOMAIN t THEN t[rootName] = subdir ELSE subdir = ""

\* C25: in subdirectory mode, the listing of a grouping has the media path
\* and the metadata path of every object of the Object Name Set whose
\* extension is .iso, .m2ts or .m4v and that belongs to the grouping, and
\* of no other object.
C25_ListsAllowedExtensions ==
  (pOut.op = "list" /\ pOut.resp = "dir" /\ pUp.subdirs) =>
    \A objName \in pUp.objs :
      LET rootName == TrimSuffix(objName, Ext(objName))
          prefix == rootNamePrefix(rootName)
          due == /\ Ext(objName) \in {".iso", ".m2ts", ".m4v"}
                 /\ C25_InGrouping(objName, pOut.subdir, pTable)
      IN  /\ BagIn(prefix \o objName, pOut.items) <=> due
          /\ BagIn(prefix \o rootName \o ".nfo", pOut.items) <=> due

\* C26: in subdirectory mode, parsePath of a subdirectory label of the
\* table, as the top-level listing shows it, returns the label and the
\* empty key.
C26_ListedLabelResolves ==
  (/\ pOut.op = "resolve"
   /\ pOut.resp = "nil"
   /\ pUp.subdirs
   /\ pOut.path \in {pTable[r] : r \in DOMAIN pTable} \ {""})
  => pOut.subdir = pOut.path /\ pOut.key = ""

C28_CancelAbortsBackingCall ==
  (xPc = "returned" /\ xDuring) => xRes = "err"

\* C29: in the step in which ensureObjNames returns nil, the timestamp of
\* the Object Name Set is at most staleTime old; and in the step in which
\* ensureInfoMap returns nil with a spreadsheet configured, so is the
\* timestamp of the Metadata Table.
C29_BoundedStaleness ==
  [][\A h \in Handlers :
       /\ (pc[h] \in {"eon_lock", "eon_iter"} /\ pc'[h] = "eim_lock")
            => (now' - objNamesTime' <= staleTime /\ objNamesTime' <= now')
       /\ (sheetID # "" /\ pc[h] \in {"eim_lock", "eim_rows"}
              /\ pc'[h] = "rlock")
            => (now' - infoMapTime' <= staleTime /\ infoMapTime' <= now')]_vars

\* C29 witness: ensureInfoMap has returned nil without a refresh at the
\* last instant of the window of the table's timestamp.
C29_Witness ==
  /\ sheetID # ""
  /\ ev.op = "eim" /\ ev.out = "fresh"
  /\ now - infoMapTime = staleTime

\* The letters of an A1 reference: the position of c in the alphabet.
C30_Index(c) == CHOOSE i \in 0..25 : Letter(i) = c

C30_IsLetter(c) == \E i \in 0..25 : Letter(i) = c

C30_IsDigit(c) == \E i \in 0..9 : SubSeq("0123456789", i + 1, i + 1) = c

\* How many letters the name starts with.
RECURSIVE C30_Lead(_, _)
C30_Lead(name, k) ==
  IF k < Len(name) /\ C30_IsLetter(SubSeq(name, k + 1, k + 1))
  THEN C30_Lead(name, k + 1) ELSE k

\* The number that letters write in bijective base 26 (A = 1, ..., Z = 26).
RECURSIVE C30_Bijective26(_)
C30_Bijective26(letters) ==
  IF letters = "" THEN 0
  ELSE 26 * C30_Bijective26(SubSeq(letters, 1, Len(letters) - 1))
       + C30_Index(SubSeq(letters, Len(letters), Len(letters))) + 1

\* The number that digits write in base 10.
RECURSIVE C30_Base10(_)
C30_Base10(digits) ==
  IF digits = "" THEN 0
  ELSE 10 * C30_Base10(SubSeq(digits, 1, Len(digits) - 1))
       + (CHOOSE i \in 0..9 :
            SubSeq("0123456789", i + 1, i + 1)
              = SubSeq(digits, Len(digits), Len(digits)))

\* C30: cellName(row, col) is the A1 reference of the cell: letters that
\* write col + 1 in bijective base 26, then the decimal digits of row + 1
\* without a leading zero (0 -> A, 25 -> Z, 26 -> AA, 701 -> ZZ,
\* 702 -> AAA).  The name determines row and col, so distinct cells have
\* distinct names.
C30_CellNameIsA1 ==
  cPc = "done" =>
    LET k == C30_Lead(cName, 0)
        letters == SubSeq(cName, 1, k)
        digits == SubSeq(cName, k + 1, Len(cName))
    IN  /\ k >= 1
        /\ Len(digits) >= 1
        /\ \A i \in 1..Len(digits) : C30_IsDigit(SubSeq(digits, i, i))
        /\ SubSeq(digits, 1, 1) # "0"
        /\ C30_Bijective26(letters) = cCol + 1
        /\ C30_Base10(digits) = cRow + 1
        /\ (cCol = 0 => letters = "A")
        /\ (cCol = 25 => letters = "Z")
        /\ (cCol = 26 => letters = "AA")
        /\ (cCol = 701 => letters = "ZZ")
        /\ (cCol = 702 => letters = "AAA")

\* C30 witness: cellName(9, 702) has returned AAA10.
C30_Witness ==
  cPc = "done" /\ cRow = 9 /\ cCol = 702 /\ cName = "AAA10"

(***************************************************************************)
(* Claims about sortTitle.                                                 *)
(***************************************************************************)

\* The word ends with an ordinal ending.
C31_IsOrdinal(word) ==
  \/ HasSuffix(word, "th") \/ HasSuffix(word, "first")
  \/ HasSuffix(word, "second") \/ HasSuffix(word, "third")

\* C31: when the first word left after the article is a number with an
\* ordinal suffix, sortTitle replaces that word alone by the words of the
\* number, of which the last and only the last is in ordinal form, with
\* one ordinal ending and not two; the later words are left as they are.
C31_OrdinalWords ==
  (sPc = "done" /\ numRegex(sortFields(sTitle)[1]).suffix # "") =>
    LET f == sortFields(sTitle)
        out == Fields(sOut)
        k == Len(out) - (Len(f) - 1)
        last == out[k]
    IN  /\ k >= 1
        /\ SubSeq(out, k + 1, Len(out)) = Tail(f)
        /\ C31_IsOrdinal(last)
        /\ ~HasSuffix(last, "thth")
        /\ \A i \in 1..(k - 1) : ~C31_IsOrdinal(out[i])

(***************************************************************************)
(* Claims about updateSpreadsheet.                                         *)
(***************************************************************************)

\* The cell of column j of the row is blank: absent, or a string of
\* spaces.
C32_Blank(row, j) ==
  \/ j >= Len(row)
  \/ row[j + 1].str /\ TrimSpace(row[j + 1].val) = ""

\* The callback writes only to cells that are blank.
C32_WritesOnlyBlankCells ==
  \A j \in uWrites : C32_Blank(uRow, j)

\* The row has a blank cell in a fillable column.
C32_HasBlankFillable ==
  \E j \in 0..(Len(uHead) - 1) :
    uHead[j + 1] \in Fillable /\ C32_Blank(uRow, j)

\* The row has an IMDb ID: a cell that is not blank in a column imdbid.
C32_HasID ==
  \E j \in 0..(Len(uHead) - 1) :
    uHead[j + 1] = "imdbid" /\ ~C32_Blank(uRow, j)

\* C32: updateSpreadsheet only adds missing details: it never writes to a
\* cell that is not blank, and a row without a blank fillable column, or
\* with neither an IMDb ID nor a local HTML file, causes no lookup and no
\* write.
C32_OnlyAddsMissing ==
  uPc # "start" =>
    /\ C32_WritesOnlyBlankCells
    /\ ~C32_HasBlankFillable => (uLooked = "none" /\ uWrites = {})
    /\ (~C32_HasID /\ uPc # "file" /\ uLooked # "file")
         => (uLooked = "none" /\ uWrites = {} /\ uPc # "page")

(***************************************************************************)
(* Claims about the Basic-auth gate.                                       *)
(***************************************************************************)

\* The request carries exactly the configured credentials.
C33_Carries ==
  aReq.ok /\ aReq.username = aCfg.username /\ aReq.password = aCfg.password

\* The request is answered 401 and its handler has touched no cache and
\* no backing store.
C33_Refused ==
  /\ aPc # "admitted"
  /\ aPc = "answered" => (aCode = 401 /\ ~aAccess)

\* With a username and a password configured, a request of any kind
\* without exactly those credentials is answered 401 before any access.
C33_BothConfiguredGate ==
  (aPc \in {"admitted", "answered"}
     /\ aCfg.username # "" /\ aCfg.password # "" /\ ~C33_Carries)
    => C33_Refused

\* C33: with a username and a password configured, every request that
\* does not carry exactly those credentials is answered 401 before any
\* cache or backing-store access; and a configured username is always
\* required of requests.
C33_CredentialsRequired ==
  /\ C33_BothConfiguredGate
  /\ (aPc \in {"admitted", "answered"} /\ aCfg.username # ""
        /\ ~(aReq.ok /\ aReq.username = aCfg.username))
       => C33_Refused

\* C34: when handleDir has listed the media item or the metadata item of
\* an object under subdir and the next call is parsePath of the path that
\* the item denotes (subdir/item, or the item alone at top level),
\* parsePath returns (subdir, item), and the item without its first 8
\* characters is the object name, or the root name followed by .nfo.
C34_ListingRoundTrip ==
  [][\A objName \in pUp.objs :
       LET rootName == TrimSuffix(objName, Ext(objName))
           prefix == rootNamePrefix(rootName)
           media == prefix \o objName
           nfo == prefix \o rootName \o ".nfo"
           under == IF pOut.subdir = "" THEN "" ELSE pOut.subdir \o "/"
       IN  (/\ pOut.op = "list" /\ pOut.resp = "dir"
            /\ pOut'.op = "resolve" /\ pOut'.resp = "nil")
           => /\ (BagIn(media, pOut.items) /\ pOut'.path = under \o media)
                 => /\ pOut'.subdir = pOut.subdir
                    /\ pOut'.key = media
                    /\ SubSeq(pOut'.key, 9, Len(pOut'.key)) = objName
              /\ (BagIn(nfo, pOut.items) /\ pOut'.path = under \o nfo)
                 => /\ pOut'.subdir = pOut.subdir
                    /\ pOut'.key = nfo
                    /\ SubSeq(pOut'.key, 9, Len(pOut'.key))
                         = rootName \o ".nfo"]_vars

\* C35: whenever a call of ensureObjNames returns nil, with or without an
\* enumeration of its own, s.objNames is the complete result of the latest
\* successful enumeration; a call does not return nil over the partial
\* set that a failed enumeration left behind.
C35_SuccessOnCompleteSet ==
  (ev.op = "eon" /\ ev.out \in {"fresh", "refreshed"}) =>
    (okEver /\ objNames = goodObj)

\* C36: every call of serveHelper2 returns a new certificate or an error
\* that is not nil: serveHelper never gets a nil pointer with a nil error,
\* so it never dereferences a nil newCertPtr.
C36_EpochEndsWithCertOrError ==
  supPc # "panicked" /\ supErr # "nilptr"

\* C37: once the outer context is cancelled, in whatever state the
\* supervisor is, serveHelper returns in the end; and when it returns
\* after the cancellation, no listener task is still running and no
\* listener is still bound.
C37_ShutdownAtAnyTime ==
  /\ (outerDone /\ supPc # "start") ~> (supPc = "returned")
  /\ [][(outerDone /\ supPc # "returned" /\ supPc' = "returned")
          => \A e \in Epochs : ~TaskRunning(e)' /\ ~Live(e)']_vars

\* The first half of C37 with the panic of serveHelper counted as its end.
C37_ShutdownEnds ==
  (outerDone /\ supPc # "start") ~> (supPc \in {"returned", "panicked"})

(***************************************************************************)
(* Claims about handleThumb.                                               *)
(***************************************************************************)

\* C38: a request for the externally visible path of the first image
\* reference of a record, /thumbs/<root><ext>, when the bucket has no
\* object <root><ext>, is answered with a redirect to the original URL of
\* the image.
C38_RewrittenThumbRedirects ==
  \A r \in DOMAIN tTable :
    (/\ tOut.resp \notin {"", "error"}
     /\ Len(tTable[r]) > 0
     /\ tOut.path = "/thumbs/" \o r \o Ext(tTable[r][1].origVal)
     /\ (r \o Ext(tTable[r][1].origVal)) \notin tObjs)
    => (tOut.resp = "redirect" /\ tOut.location = tTable[r][1].origVal)

(***************************************************************************)
(* Claims about objReader.                                                 *)
(***************************************************************************)

\* What C39 says of one call: Seek leaves no reader open and never
\* changes nread, and changes pos only when it returns no error; a Read
\* that opens a reader opens it at pos; a Read advances pos and nread by
\* the number of bytes it returns.
C39_Call ==
  /\ oLast'.op = "seek" =>
       /\ oR' = {}
       /\ oNread' = oNread
       /\ oLast'.err => oPos' = oPos
  /\ oLast'.op = "read" =>
       /\ oLast'.opened \subseteq {oPos}
       /\ oPos' = oPos + oLast'.n
       /\ oNread' = oNread + oLast'.n

\* C39: after any sequence of Read, Seek and Close calls an open reader is
\* at the current position pos, and every call is as C39_Call says.
C39_ReaderAtPos ==
  /\ [](oR \subseteq {oPos})
  /\ [][C39_Call]_vars

(***************************************************************************)
(* Claims about the progress-logging goroutine.                            *)
(***************************************************************************)

\* C40: in verbose mode a media transfer starts at most one logging
\* goroutine; once the transfer has ended and the context is cancelled the
\* goroutine logs the final byte count once and is over: it logs no
\* second final line and is not at its select any more.
C40_LoggerEndsWithTransfer ==
  \A h \in Transfers :
    /\ lStarted[h] <= 1
    /\ lFinal[h] <= 1
    /\ lFinal[h] >= 1 => lTask[h] = "exited"

====
